---- MODULE Spec2Model ----
(***************************************************************************)
(* A model of TNArchipelVirtualMachine (archipelVirtualMachine.py): the    *)
(* per-VM agent that serves IQ requests on the control and definition      *)
(* namespaces, drives a libvirt domain, and turns the driver's lifecycle   *)
(* events into presence, change notifications, hooks and trigger states.   *)
(*                                                                         *)
(* The agent's fields are the VARIABLES.  A handler is an operator from a  *)
(* state record (the fields, see State) to a state record, so that the     *)
(* sequential code of a handler, its try/except/finally and the nested     *)
(* calls (create -> on_domain_event -> unlock) compose as in the source.   *)
(***************************************************************************)
EXTENDS Integers, Sequences, FiniteSets, TLC

\* ----------------------------------------------------------------------
\* Program constants
\* ----------------------------------------------------------------------
ARCHIPEL_ERROR_CODE_VM_CREATE == -1001
ARCHIPEL_ERROR_CODE_VM_SUSPEND == -1002
ARCHIPEL_ERROR_CODE_VM_RESUME == -1003
ARCHIPEL_ERROR_CODE_VM_DESTROY == -1004
ARCHIPEL_ERROR_CODE_VM_SHUTDOWN == -1005
ARCHIPEL_ERROR_CODE_VM_REBOOT == -1006
ARCHIPEL_ERROR_CODE_VM_DEFINE == -1007
ARCHIPEL_ERROR_CODE_VM_UNDEFINE == -1008
ARCHIPEL_ERROR_CODE_VM_INFO == -1009
ARCHIPEL_ERROR_CODE_VM_XMLDESC == -1011
ARCHIPEL_ERROR_CODE_VM_LOCKED == -1012
ARCHIPEL_ERROR_CODE_VM_MIGRATE == -1013
ARCHIPEL_ERROR_CODE_VM_AUTOSTART == -1015
ARCHIPEL_ERROR_CODE_VM_MEMORY == -1016
ARCHIPEL_ERROR_CODE_VM_NETWORKINFO == -1017
ARCHIPEL_ERROR_CODE_VM_HYPERVISOR_CAPABILITIES == -1019
ARCHIPEL_ERROR_CODE_VM_FREE == -1020
ARCHIPEL_ERROR_CODE_VM_MIGRATING == -43
\* the error_code argument of check_perm(conn, iq, action, -1)
PERMISSION_ERROR_CODE == -1

ARCHIPEL_NS_VM_CONTROL == "archipel:vm:control"
ARCHIPEL_NS_VM_DEFINITION == "archipel:vm:definition"
ARCHIPEL_NS_LIBVIRT_GENERIC_ERROR == "libvirt:error:generic"

ARCHIPEL_XMPP_SHOW_RUNNING == "Running"
ARCHIPEL_XMPP_SHOW_PAUSED == "Paused"
ARCHIPEL_XMPP_SHOW_SHUTDOWNED == "Off"
ARCHIPEL_XMPP_SHOW_SHUTDOWNING == "Shutdowning..."
ARCHIPEL_XMPP_SHOW_SHUTOFF == "Shutted off"
ARCHIPEL_XMPP_SHOW_NOT_DEFINED == "Not defined"
ARCHIPEL_XMPP_SHOW_CRASHED == "Crashed"

\* libvirt domain states (virDomainState), as the code compares them
VIR_DOMAIN_NOSTATE == 0
VIR_DOMAIN_RUNNING == 1
VIR_DOMAIN_BLOCKED == 2
VIR_DOMAIN_PAUSED == 3
VIR_DOMAIN_SHUTDOWN == 4
VIR_DOMAIN_SHUTOFF == 5
VIR_DOMAIN_CRASHED == 6

\* libvirt lifecycle event kinds (virDomainEventType)
VIR_DOMAIN_EVENT_DEFINED == 0
VIR_DOMAIN_EVENT_UNDEFINED == 1
VIR_DOMAIN_EVENT_STARTED == 2
VIR_DOMAIN_EVENT_SUSPENDED == 3
VIR_DOMAIN_EVENT_RESUMED == 4
VIR_DOMAIN_EVENT_STOPPED == 5
\* the next event kind of the driver; on_domain_event compares the event
\* with the domain-state numbers VIR_DOMAIN_CRASHED and VIR_DOMAIN_SHUTOFF
VIR_DOMAIN_EVENT_SHUTDOWN == 6

\* event details
VIR_DOMAIN_EVENT_STARTED_BOOTED == 0
VIR_DOMAIN_EVENT_STARTED_MIGRATED == 1
VIR_DOMAIN_EVENT_SUSPENDED_PAUSED == 0
VIR_DOMAIN_EVENT_SUSPENDED_MIGRATED == 1
VIR_DOMAIN_EVENT_RESUMED_UNPAUSED == 0
VIR_DOMAIN_EVENT_RESUMED_MIGRATED == 1
VIR_DOMAIN_EVENT_STOPPED_SHUTDOWN == 0
VIR_DOMAIN_EVENT_STOPPED_DESTROYED == 1
VIR_DOMAIN_EVENT_STOPPED_MIGRATED == 3

\* libvirt error codes
VIR_ERR_NO_DOMAIN == 42
VIR_ERR_OPERATION_INVALID == 55

\* archipelcore.archipelTriggers: the state column of a watcher row
ARCHIPEL_WATCHER_STATE_OFF == 0
ARCHIPEL_WATCHER_STATE_ON == 1

ARCHIPEL_HYPERVISOR_TYPE_QEMU == "QEMU"
ARCHIPEL_HYPERVISOR_TYPE_XEN == "XEN"
HYPERVISOR_TYPE_OTHER == "OTHER"

\* ----------------------------------------------------------------------
\* Bounds of the model
\* ----------------------------------------------------------------------
\* lifecycle events the driver has emitted and not yet delivered
MaxEvents == 1
\* safety timers still pending that self.lock_timer no longer refers to
MaxStale == 1
\* lifecycle callbacks registered at the driver at once
MaxRegistrations == 1
\* description children of a define request's <domain>
MaxDesc == 2
\* the id the driver gives a started domain
DomId == 7
\* the domain's maxVcpus; a setvcpus request carries up to one more
MaxVcpus == 2
\* rows of each table of the trigger database
MaxRows == 2
MaxMemoryCalls == 1

\* ----------------------------------------------------------------------
\* Identity (immutable after construction)
\* ----------------------------------------------------------------------
UUID == "AAAA"
OTHER_UUID == "BBBB"
NAME == "vm-name"
\* "%s::::%s" % (self.jid.getStripped(), self.password)
CRED == "AAAA@host::::secret"
HYPERVISOR_JID == "hyp@host"
PEER_JID == "peer@host"

ActiveStates == {VIR_DOMAIN_RUNNING, VIR_DOMAIN_BLOCKED, VIR_DOMAIN_PAUSED}
DomainStates == VIR_DOMAIN_NOSTATE .. VIR_DOMAIN_CRASHED
DriverErrorCodes == {VIR_ERR_NO_DOMAIN, VIR_ERR_OPERATION_INVALID}

\* The domain XML the driver holds for a domain this agent defined earlier.
DefinedDoc == [uuid |-> UUID, description |-> <<CRED>>, name |-> <<NAME>>]

\* The <domain> payloads a define request may carry: the uuid child's text
\* ("none": no uuid child), the texts of its description children and of its
\* name children, in document order.
RECURSIVE SeqsUpTo(_, _)
SeqsUpTo(S, n) ==
    IF n = 0 THEN {<<>>}
    ELSE LET shorter == SeqsUpTo(S, n - 1)
         IN shorter \cup {Append(q, x) : q \in shorter, x \in S}

RequestDocs ==
    [uuid : {UUID},
     description : SeqsUpTo({"user text"}, MaxDesc),
     name : {<<>>, <<"other name">>}]
    \cup [uuid : {OTHER_UUID, "none"},
          description : {<<"user text">>},
          name : {<<"other name">>}]

NoReply == [type |-> "none", code |-> 0, ns |-> "", payload |-> <<>>]

VARIABLES
    authenticated,     \* the XMPP session is authenticated:
                       \* HOOK_ARCHIPELENTITY_XMPP_AUTHENTICATED has run
    libvirt_connection, \* self.libvirt_connection is not None
    hyp,               \* the driver type of self.libvirt_connection
    domain,            \* self.domain is not None
    definition,        \* self.definition: <<>> (None) or <<doc>>
    libvirt_status,    \* self.libvirt_status
    locked,            \* self.locked
    lock_timer,        \* self.lock_timer: "armed" (a pending timer) or "none"
                       \* (None, or a timer that was cancelled or has fired)
    stale_timers,      \* pending timers of earlier lock() calls
    is_migrating,      \* self.is_migrating
    callback_id,       \* self.libvirt_event_callback_id is not None
    registrations,     \* lifecycle callbacks registered at the driver
    libvirt_run,       \* self.triggers["libvirt_run"]: "absent", "on", "off"
    xmppstatusshow,    \* presence show
    xmppstatus,        \* presence status text
    migration,         \* the migration protocol: "idle", "step2", "step3"
    drv_defined,       \* driver: the domain is defined
    drv_state,         \* driver: the domain's state
    drv_xml,           \* driver: the domain's XML, <<>> or <<doc>>
    events,            \* driver: lifecycle events emitted, not yet delivered
    trigger_database,  \* triggers.sqlite3: the rows of its two tables
    triggers,          \* self.triggers: the names it holds
    watchers,          \* self.watchers: name and whether it is watching
    drv_memory,        \* driver: the domain's memory, dominfo[2]
    memory_timers,     \* the pending Timer objects of memoryTimer: the
                       \* setMemory call they poll for and their kwargs
    memory_polls,      \* per successful setMemory call, what its polling has
                       \* done so far: info reads, notifications, exceptions
    shutdown_pc        \* where the thread that runs shutdown() stands: "idle",
                       \* "called" (after line 584), "publish" (line 585 was
                       \* true), "returned"

vars == <<authenticated, libvirt_connection, hyp, domain, definition, libvirt_status, locked,
          lock_timer, stale_timers, is_migrating, callback_id, registrations,
          libvirt_run, xmppstatusshow, xmppstatus, migration, drv_defined,
          drv_state, drv_xml, events, trigger_database, triggers, watchers,
          drv_memory, memory_timers, memory_polls, shutdown_pc>>

\* The fields as one record: what a handler reads and returns.  A handler
\* also returns what it did, in order (log: the driver calls, presences,
\* change notifications, trigger changes, hooks, lock and unlock), and the
\* reply it sends (reply); both start empty.
State ==
    [authenticated |-> authenticated, libvirt_connection |-> libvirt_connection,
     hyp |-> hyp, domain |-> domain,
     definition |-> definition, libvirt_status |-> libvirt_status,
     locked |-> locked, lock_timer |-> lock_timer,
     stale_timers |-> stale_timers, is_migrating |-> is_migrating,
     callback_id |-> callback_id, registrations |-> registrations,
     libvirt_run |-> libvirt_run, xmppstatusshow |-> xmppstatusshow,
     xmppstatus |-> xmppstatus, migration |-> migration,
     drv_defined |-> drv_defined, drv_state |-> drv_state,
     drv_xml |-> drv_xml, events |-> events,
     trigger_database |-> trigger_database, triggers |-> triggers,
     watchers |-> watchers,
     log |-> <<>>, reply |-> NoReply]

\* ----------------------------------------------------------------------
\* Utilities
\* ----------------------------------------------------------------------
Logged(s, what, a, b) == [s EXCEPT !.log = Append(@, <<what, a, b>>)]

\* The entries of a handler's log of one kind.
Entries(log, what) == {i \in DOMAIN log : log[i][1] = what}

\* lock() as it would be if it started no timer
lock_without_timer(s) ==
    Logged([s EXCEPT !.locked = TRUE], "lock", "", "")

\* lock(): a new Timer replaces self.lock_timer; the timer it replaces is
\* not cancelled and stays pending.
lock(s) ==
    Logged([s EXCEPT !.locked = TRUE,
                     !.stale_timers = IF s.lock_timer = "armed" THEN @ + 1 ELSE @,
                     !.lock_timer = "armed"],
           "lock", "", "")

\* unlock(): cancels the timer self.lock_timer refers to, no other.
unlock(s) ==
    Logged([s EXCEPT !.locked = FALSE,
                     !.lock_timer = "none"],
           "unlock", "", "")

\* TNArchipelEntity.change_presence(presence_show, presence_status)
change_presence(s, show, status) ==
    Logged([s EXCEPT !.xmppstatusshow = show, !.xmppstatus = status],
           "presence", show, status)

push_change(s, channel, label) == Logged(s, "push", channel, label)

perform_hooks(s, hook) == Logged(s, "hook", hook, "")

\* self.triggers["libvirt_run"].set_state(state)
set_state(s, state) ==
    Logged([s EXCEPT !.libvirt_run = state], "trigger", "libvirt_run", state)

\* A call into the hypervisor driver, as a line of the log.
driver_call(s, name) == Logged(s, "driver", name, "")

\* archipelLibvirtEntity.is_hypervisor(names): the type of the libvirt
\* connection is one of names.
is_hypervisor(s, names) == s.hyp \in names

\* Whether the driver itself delivers the lifecycle event of this kind:
\* QEMU/KVM delivers all, Xen all but suspended and resumed, the others none.
EmitsLifecycle(h, ev) ==
    \/ h = ARCHIPEL_HYPERVISOR_TYPE_QEMU
    \/ /\ h = ARCHIPEL_HYPERVISOR_TYPE_XEN
       /\ ev \notin {VIR_DOMAIN_EVENT_SUSPENDED, VIR_DOMAIN_EVENT_RESUMED}

\* The driver emits a lifecycle event: it is queued for the agent's callback
\* when one is registered.
driver_emit(s, ev, detail) ==
    IF s.registrations > 0 /\ EmitsLifecycle(s.hyp, ev)
    THEN [s EXCEPT !.events = Append(@, <<ev, detail>>)]
    ELSE s

\* remove_libvirt_handler(): deregisters the callback the id refers to.
remove_libvirt_handler(s) ==
    IF s.callback_id
    THEN Logged([s EXCEPT !.callback_id = FALSE,
                          !.registrations = @ - 1,
                          !.events = IF s.registrations = 1 THEN <<>> ELSE @],
                "driver", "domainEventDeregisterAny", "")
    ELSE s

\* info()["state"]: dominfo = self.domain.info().  <<"ok", state>>, or the
\* error raised: AttributeError on a None handle, libvirtError 42 on a
\* handle whose domain the driver no longer knows.
info(s) ==
    IF ~s.domain THEN <<"exception", 0>>
    ELSE IF ~s.drv_defined THEN <<"libvirtError", VIR_ERR_NO_DOMAIN>>
    ELSE <<"ok", s.drv_state>>

\* ----------------------------------------------------------------------
\* Presence mapping at connection
\* ----------------------------------------------------------------------
\* set_presence_according_to_libvirt_info(); info_err is the error code of
\* the libvirtError self.domain.info() raises, 0 when it raises none.
set_presence_according_to_libvirt_info(s, info_err) ==
    IF info_err = 0
    THEN LET st == s.drv_state
             s1 == [driver_call(s, "info") EXCEPT !.libvirt_status = st]
             s2 == IF st = VIR_DOMAIN_RUNNING \/ st = VIR_DOMAIN_BLOCKED
                   THEN set_state(change_presence(s1, "", ARCHIPEL_XMPP_SHOW_RUNNING), "on")
                   ELSE IF st = VIR_DOMAIN_PAUSED
                   THEN set_state(change_presence(s1, "away", ARCHIPEL_XMPP_SHOW_PAUSED), "off")
                   ELSE IF st = VIR_DOMAIN_SHUTOFF
                   THEN change_presence(s1, "xa", ARCHIPEL_XMPP_SHOW_SHUTDOWNED)
                   ELSE IF st = VIR_DOMAIN_SHUTDOWN
                   THEN change_presence(s1, "", ARCHIPEL_XMPP_SHOW_SHUTDOWNING)
                   ELSE s1
         IN perform_hooks(s2, "HOOK_VM_INITIALIZE")
    ELSE IF info_err = VIR_ERR_NO_DOMAIN
    THEN set_state(change_presence([driver_call(s, "info") EXCEPT !.domain = FALSE],
                                   "xa", ARCHIPEL_XMPP_SHOW_NOT_DEFINED),
                   "off")
    ELSE driver_call(s, "info")

\* connect_domain(): look the domain up by uuid, read its XML, register the
\* lifecycle callback, publish the presence.
connect_domain(s, info_err) ==
    IF s.domain THEN s
    ELSE IF ~s.drv_defined
    THEN perform_hooks(change_presence(driver_call(s, "lookupByUUIDString"),
                                       "xa", ARCHIPEL_XMPP_SHOW_NOT_DEFINED),
                       "HOOK_VM_INITIALIZE")
    ELSE LET s1 == [driver_call(s, "lookupByUUIDString") EXCEPT !.domain = TRUE]
             s2 == [driver_call(s1, "XMLDesc") EXCEPT !.definition = s.drv_xml]
             s3 == [driver_call(s2, "domainEventRegisterAny")
                      EXCEPT !.callback_id = TRUE, !.registrations = @ + 1]
         IN set_presence_according_to_libvirt_info(s3, info_err)

\* ----------------------------------------------------------------------
\* Event ingress
\* ----------------------------------------------------------------------
\* The branch of the try block the event selects: the presence (show,
\* status), the change notification (channel, label), the state of the
\* libvirt_run trigger and the hook of the branch; <<>> when no test
\* matches.
event_branch(event, detail) ==
    IF event = VIR_DOMAIN_EVENT_STARTED /\ ~(detail = VIR_DOMAIN_EVENT_STARTED_MIGRATED)
    THEN <<"", ARCHIPEL_XMPP_SHOW_RUNNING, "virtualmachine:control", "created",
           "on", "HOOK_VM_CREATE">>
    ELSE IF event = VIR_DOMAIN_EVENT_SUSPENDED /\ ~(detail = VIR_DOMAIN_EVENT_SUSPENDED_MIGRATED)
    THEN <<"away", ARCHIPEL_XMPP_SHOW_PAUSED, "virtualmachine:control", "suspended",
           "off", "HOOK_VM_SUSPEND">>
    ELSE IF event = VIR_DOMAIN_EVENT_RESUMED /\ ~(detail = VIR_DOMAIN_EVENT_RESUMED_MIGRATED)
    THEN <<"", ARCHIPEL_XMPP_SHOW_RUNNING, "virtualmachine:control", "resumed",
           "off", "HOOK_VM_RESUME">>
    ELSE IF event = VIR_DOMAIN_EVENT_STOPPED /\ ~(detail = VIR_DOMAIN_EVENT_STOPPED_MIGRATED)
    THEN <<"xa", ARCHIPEL_XMPP_SHOW_SHUTDOWNED, "virtualmachine:control", "shutdowned",
           "off", "HOOK_VM_STOP">>
    ELSE IF event = VIR_DOMAIN_CRASHED
    THEN <<"xa", ARCHIPEL_XMPP_SHOW_CRASHED, "virtualmachine:control", "crashed",
           "off", "HOOK_VM_CRASH">>
    ELSE IF event = VIR_DOMAIN_SHUTOFF
    THEN <<"", ARCHIPEL_XMPP_SHOW_SHUTOFF, "virtualmachine:control", "shutoff",
           "off", "HOOK_VM_SHUTOFF">>
    ELSE IF event = VIR_DOMAIN_EVENT_UNDEFINED
    THEN <<"xa", ARCHIPEL_XMPP_SHOW_NOT_DEFINED, "virtualmachine:definition", "undefined",
           "off", "HOOK_VM_UNDEFINE">>
    ELSE IF event = VIR_DOMAIN_EVENT_DEFINED
    THEN <<"xa", ARCHIPEL_XMPP_SHOW_SHUTDOWNED, "virtualmachine:definition", "defined",
           "off", "HOOK_VM_DEFINE">>
    ELSE <<>>

\* The calls of a branch that may raise, and "none": no call raises.
BranchSteps == {"presence", "push", "trigger", "hook"}

\* The try block and the except clause of on_domain_event: the calls of
\* the selected branch in their order, up to the call that raises (raises;
\* "none": the branch runs to its end); the except clause logs the error.
try_block(s, event, detail, raises) ==
    LET b == event_branch(event, detail)
        s1 == change_presence(s, b[1], b[2])
        s2 == push_change(s1, b[3], b[4])
        s3 == set_state(s2, b[5])
        s4 == perform_hooks(s3, b[6])
        \* self.domain = None; self.description = None (an attribute nothing
        \* reads: self.definition is left as it is)
        s5 == IF event = VIR_DOMAIN_EVENT_UNDEFINED
              THEN remove_libvirt_handler([s4 EXCEPT !.domain = FALSE])
              ELSE s4
    IN IF b = <<>> THEN s
       ELSE CASE raises = "presence" -> Logged(s, "error", "on_domain_event", raises)
              [] raises = "push" -> Logged(s1, "error", "on_domain_event", raises)
              [] raises = "trigger" -> Logged(s2, "error", "on_domain_event", raises)
              [] raises = "hook" -> Logged(s3, "error", "on_domain_event", raises)
              [] OTHER -> s5

\* The finally block's refresh: self.libvirt_status = self.info()["state"],
\* any error swallowed.
refresh_status(s) ==
    LET i == info(s)
    IN IF i[1] = "ok"
       THEN Logged([s EXCEPT !.libvirt_status = i[2]], "refresh", "", "")
       ELSE Logged(s, "refresh", "failed", "")

\* on_domain_event as it would be without the test of self.is_migrating
on_domain_event_unguarded(s, event, detail) ==
    LET s1 == try_block(s, event, detail, "none")
        s2 == IF ~(event = VIR_DOMAIN_EVENT_UNDEFINED)
                 /\ ~(event = VIR_DOMAIN_EVENT_DEFINED)
              THEN refresh_status(s1)
              ELSE s1
    IN unlock(s2)

\* on_domain_event as it would be with self.unlock() as the last statement
\* of the try block
on_domain_event_unlock_in_try(s, event, detail, raises) ==
    IF s.is_migrating THEN s
    ELSE LET s1 == try_block(s, event, detail, raises)
             s2 == IF raises = "none" \/ event_branch(event, detail) = <<>>
                   THEN unlock(s1) ELSE s1
         IN IF ~(event = VIR_DOMAIN_EVENT_UNDEFINED)
               /\ ~(event = VIR_DOMAIN_EVENT_DEFINED)
            THEN refresh_status(s2)
            ELSE s2

\* on_domain_event(conn, dom, event, detail, opaque) when the call raises
\* of its branch raises an exception
on_domain_event_raising(s, event, detail, raises) ==
    IF s.is_migrating THEN s
    ELSE LET s1 == try_block(s, event, detail, raises)
             s2 == IF ~(event = VIR_DOMAIN_EVENT_UNDEFINED)
                      /\ ~(event = VIR_DOMAIN_EVENT_DEFINED)
                   THEN refresh_status(s1)
                   ELSE s1
         IN unlock(s2)

\* on_domain_event(conn, dom, event, detail, opaque)
on_domain_event(s, event, detail) ==
    on_domain_event_raising(s, event, detail, "none")

\* ----------------------------------------------------------------------
\* The hypervisor driver
\* ----------------------------------------------------------------------
\* The domain states in which the driver accepts an operation.
DriverAccepts(op) ==
    CASE op = "create" -> DomainStates \ ActiveStates
      [] op = "shutdown" -> ActiveStates
      [] op = "destroy" -> ActiveStates
      [] op = "reboot" -> ActiveStates
      [] op = "suspend" -> {VIR_DOMAIN_RUNNING, VIR_DOMAIN_BLOCKED}
      [] op = "resume" -> {VIR_DOMAIN_PAUSED}
      [] op = "undefine" -> DomainStates \ ActiveStates
      [] op = "migrateToURI" -> ActiveStates
      [] OTHER -> DomainStates

\* The code of the libvirtError a call on the domain handle raises, 0 when
\* it raises none.  err: an error of the driver's own (0: none).
driver_error(s, op, err) ==
    IF err # 0 THEN err
    ELSE IF ~s.drv_defined THEN VIR_ERR_NO_DOMAIN
    ELSE IF s.drv_state \notin DriverAccepts(op) THEN VIR_ERR_OPERATION_INVALID
    ELSE 0

\* What a method returns: the state it leaves, the exception it raises
\* (<<>>: none) and its value.
Return(s, val) == [s |-> s, exc |-> <<>>, val |-> val]
RaiseLibvirtError(s, code) == [s |-> s, exc |-> <<"libvirtError", code>>, val |-> 0]
RaiseException(s) == [s |-> s, exc |-> <<"Exception", 0>>, val |-> 0]

\* self.domain.ID()
domain_ID(s) == IF s.drv_defined /\ s.drv_state \in ActiveStates THEN DomId ELSE -1

\* ----------------------------------------------------------------------
\* libvirt controls
\* ----------------------------------------------------------------------
create(s, err) ==
    LET s1 == lock(s)
        e == driver_error(s1, "create", err)
    IN IF ~s1.domain THEN RaiseException(s1)
       ELSE IF e # 0 THEN RaiseLibvirtError(driver_call(s1, "create"), e)
       ELSE LET s2 == driver_emit([driver_call(s1, "create")
                                     EXCEPT !.drv_state = VIR_DOMAIN_RUNNING],
                                  VIR_DOMAIN_EVENT_STARTED,
                                  VIR_DOMAIN_EVENT_STARTED_BOOTED)
                s3 == IF ~is_hypervisor(s2, {ARCHIPEL_HYPERVISOR_TYPE_QEMU,
                                             ARCHIPEL_HYPERVISOR_TYPE_XEN})
                      THEN on_domain_event(s2, VIR_DOMAIN_EVENT_STARTED,
                                           VIR_DOMAIN_EVENT_STARTED_BOOTED)
                      ELSE s2
            IN Return(s3, domain_ID(s3))

shutdown(s, err) ==
    LET s1 == lock(s)
        e == driver_error(s1, "shutdown", err)
    IN IF ~s1.domain THEN RaiseException(s1)
       ELSE IF e # 0 THEN RaiseLibvirtError(driver_call(s1, "shutdown"), e)
       ELSE LET s2 == driver_call(driver_call(s1, "shutdown"), "info")
                st == info(s2)[2]
                \* change_presence(self.xmppstatus, ...): the status text is
                \* passed as the show
                s3 == IF st = VIR_DOMAIN_RUNNING \/ st = VIR_DOMAIN_BLOCKED
                      THEN change_presence(s2, s2.xmppstatus,
                                           ARCHIPEL_XMPP_SHOW_SHUTDOWNING)
                      ELSE s2
                s4 == IF ~is_hypervisor(s3, {ARCHIPEL_HYPERVISOR_TYPE_QEMU,
                                             ARCHIPEL_HYPERVISOR_TYPE_XEN})
                      THEN on_domain_event(s3, VIR_DOMAIN_EVENT_STOPPED,
                                           VIR_DOMAIN_EVENT_STOPPED_SHUTDOWN)
                      ELSE s3
            IN Return(s4, 0)

destroy(s, err) ==
    LET s1 == lock(s)
        e == driver_error(s1, "destroy", err)
    IN IF ~s1.domain THEN RaiseException(s1)
       ELSE IF e # 0 THEN RaiseLibvirtError(driver_call(s1, "destroy"), e)
       ELSE LET s2 == driver_emit([driver_call(s1, "destroy")
                                     EXCEPT !.drv_state = VIR_DOMAIN_SHUTOFF],
                                  VIR_DOMAIN_EVENT_STOPPED,
                                  VIR_DOMAIN_EVENT_STOPPED_DESTROYED)
                s3 == IF ~is_hypervisor(s2, {ARCHIPEL_HYPERVISOR_TYPE_QEMU,
                                             ARCHIPEL_HYPERVISOR_TYPE_XEN})
                      THEN on_domain_event(s2, VIR_DOMAIN_EVENT_STOPPED,
                                           VIR_DOMAIN_EVENT_STOPPED_DESTROYED)
                      ELSE s2
            IN Return(s3, 0)

reboot(s, err) ==
    LET s1 == lock(s)
        e == driver_error(s1, "reboot", err)
    IN IF ~s1.domain THEN RaiseException(s1)
       ELSE IF e # 0 THEN RaiseLibvirtError(driver_call(s1, "reboot"), e)
       ELSE Return(driver_call(s1, "reboot"), 0)

suspend(s, err) ==
    LET s1 == lock(s)
        e == driver_error(s1, "suspend", err)
    IN IF ~s1.domain THEN RaiseException(s1)
       ELSE IF e # 0 THEN RaiseLibvirtError(driver_call(s1, "suspend"), e)
       ELSE LET s2 == driver_emit([driver_call(s1, "suspend")
                                     EXCEPT !.drv_state = VIR_DOMAIN_PAUSED],
                                  VIR_DOMAIN_EVENT_SUSPENDED,
                                  VIR_DOMAIN_EVENT_SUSPENDED_PAUSED)
                s3 == IF ~is_hypervisor(s2, {ARCHIPEL_HYPERVISOR_TYPE_QEMU})
                      THEN on_domain_event(s2, VIR_DOMAIN_EVENT_SUSPENDED,
                                           VIR_DOMAIN_EVENT_SUSPENDED_PAUSED)
                      ELSE s2
            IN Return(s3, 0)

resume(s, err) ==
    LET s1 == lock(s)
        e == driver_error(s1, "resume", err)
    IN IF ~s1.domain THEN RaiseException(s1)
       ELSE IF e # 0 THEN RaiseLibvirtError(driver_call(s1, "resume"), e)
       ELSE LET s2 == driver_emit([driver_call(s1, "resume")
                                     EXCEPT !.drv_state = VIR_DOMAIN_RUNNING],
                                  VIR_DOMAIN_EVENT_RESUMED,
                                  VIR_DOMAIN_EVENT_RESUMED_UNPAUSED)
                s3 == IF ~is_hypervisor(s2, {ARCHIPEL_HYPERVISOR_TYPE_QEMU})
                      THEN on_domain_event(s2, VIR_DOMAIN_EVENT_RESUMED,
                                           VIR_DOMAIN_EVENT_RESUMED_UNPAUSED)
                      ELSE s2
            IN Return(s3, 0)

\* setVCPUs(value)
setVCPUs(s, value, err) ==
    LET s1 == lock(s)
        e == driver_error(s1, "setVcpus", err)
    IN IF ~s1.domain THEN RaiseException(s1)
       ELSE IF ~s1.drv_defined
       THEN RaiseLibvirtError(driver_call(s1, "maxVcpus"), VIR_ERR_NO_DOMAIN)
       ELSE IF value > MaxVcpus THEN RaiseException(driver_call(s1, "maxVcpus"))
       ELSE IF e # 0
       THEN RaiseLibvirtError(driver_call(driver_call(s1, "maxVcpus"), "setVcpus"), e)
       ELSE Return(unlock(driver_call(driver_call(s1, "maxVcpus"), "setVcpus")), 0)

\* ----------------------------------------------------------------------
\* Definition
\* ----------------------------------------------------------------------
\* set_automatic_libvirt_description(xmldesc): delChild removes the first
\* description child, addChild appends an empty one, getTag returns the
\* first child of that name and setData sets its text.
set_automatic_libvirt_description(xmldesc) ==
    LET d1 == IF xmldesc.description = <<>>
              THEN <<"">>
              ELSE Append(Tail(xmldesc.description), "")
        d2 == [d1 EXCEPT ![1] = CRED]
        n1 == IF xmldesc.name = <<>> THEN <<"">> ELSE xmldesc.name
        n2 == [n1 EXCEPT ![1] = NAME]
    IN [xmldesc EXCEPT !.description = d2, !.name = n2]

\* libvirt_connection.defineXML(xml): the driver parses the document into
\* its own definition, which has one description and one name (the first
\* child of each kind), and XMLDesc() formats that definition.
driver_defined_xml(doc) ==
    [doc EXCEPT !.description = SubSeq(@, 1, 1), !.name = SubSeq(@, 1, 1)]

\* define(xmldesc)
define(s, xmldesc, err, info_err) ==
    LET doc == set_automatic_libvirt_description(xmldesc)
    IN IF ~s.libvirt_connection THEN RaiseException(s)
       ELSE IF err # 0 THEN RaiseLibvirtError(driver_call(s, "defineXML"), err)
       ELSE LET s1 == driver_emit(
                        [driver_call(s, "defineXML")
                           EXCEPT !.drv_defined = TRUE,
                                  !.drv_xml = <<driver_defined_xml(doc)>>,
                                  !.drv_state = IF s.drv_defined THEN @
                                                ELSE VIR_DOMAIN_SHUTOFF],
                        VIR_DOMAIN_EVENT_DEFINED, 0)
                s2 == IF ~s1.domain THEN connect_domain(s1, info_err) ELSE s1
                s3 == [s2 EXCEPT !.definition = <<doc>>]
                s4 == IF ~is_hypervisor(s3, {ARCHIPEL_HYPERVISOR_TYPE_QEMU,
                                             ARCHIPEL_HYPERVISOR_TYPE_XEN})
                      THEN on_domain_event(s3, VIR_DOMAIN_EVENT_DEFINED, 0)
                      ELSE s3
            IN Return(s4, 0)

\* undefine() as it would be without the test of self.domain: the call on a
\* None handle raises
undefine_unguarded(s, err) ==
    LET e == driver_error(s, "undefine", err)
    IN IF ~s.domain THEN RaiseException(s)
       ELSE IF e # 0 THEN RaiseLibvirtError(driver_call(s, "undefine"), e)
       ELSE LET s1 == driver_emit([driver_call(s, "undefine")
                                     EXCEPT !.drv_defined = FALSE,
                                            !.drv_xml = <<>>],
                                  VIR_DOMAIN_EVENT_UNDEFINED, 0)
                s2 == IF ~is_hypervisor(s1, {ARCHIPEL_HYPERVISOR_TYPE_QEMU,
                                             ARCHIPEL_HYPERVISOR_TYPE_XEN})
                      THEN on_domain_event(s1, VIR_DOMAIN_EVENT_UNDEFINED, 0)
                      ELSE s1
            IN Return(s2, 0)

\* undefine()
undefine(s, err) ==
    LET e == driver_error(s, "undefine", err)
    IN IF ~s.domain THEN Return(s, 0)
       ELSE IF e # 0 THEN RaiseLibvirtError(driver_call(s, "undefine"), e)
       ELSE LET s1 == driver_emit([driver_call(s, "undefine")
                                     EXCEPT !.drv_defined = FALSE,
                                            !.drv_xml = <<>>],
                                  VIR_DOMAIN_EVENT_UNDEFINED, 0)
                s2 == IF ~is_hypervisor(s1, {ARCHIPEL_HYPERVISOR_TYPE_QEMU,
                                             ARCHIPEL_HYPERVISOR_TYPE_XEN})
                      THEN on_domain_event(s1, VIR_DOMAIN_EVENT_UNDEFINED, 0)
                      ELSE s1
            IN Return(s2, 0)

\* ----------------------------------------------------------------------
\* Migration
\* ----------------------------------------------------------------------
\* migrate_step1 as it would be without the test of the domain's state
migrate_step1_any_state(s, destination_jid) ==
    IF ~is_hypervisor(s, {ARCHIPEL_HYPERVISOR_TYPE_QEMU}) THEN RaiseException(s)
    ELSE IF s.is_migrating THEN RaiseException(s)
    ELSE IF s.definition = <<>> THEN RaiseException(s)
    ELSE IF HYPERVISOR_JID = destination_jid THEN RaiseException(s)
    ELSE Return(Logged([s EXCEPT !.is_migrating = TRUE, !.migration = "step2"],
                       "send", "archipel:hypervisor:control", "uri"),
                0)

\* migrate_step1(destination_jid)
migrate_step1(s, destination_jid) ==
    IF ~is_hypervisor(s, {ARCHIPEL_HYPERVISOR_TYPE_QEMU}) THEN RaiseException(s)
    ELSE IF s.is_migrating THEN RaiseException(s)
    ELSE IF s.definition = <<>> THEN RaiseException(s)
    ELSE IF ~s.domain THEN RaiseException(s)
    ELSE IF info(s)[1] # "ok" THEN RaiseException(driver_call(s, "info"))
    ELSE IF ~(info(s)[2] = VIR_DOMAIN_RUNNING) /\ ~(info(s)[2] = VIR_DOMAIN_BLOCKED)
    THEN RaiseException(driver_call(s, "info"))
    ELSE IF HYPERVISOR_JID = destination_jid
    THEN RaiseException(driver_call(s, "info"))
    ELSE Return(Logged([driver_call(s, "info") EXCEPT !.is_migrating = TRUE,
                                                      !.migration = "step2"],
                       "send", "archipel:hypervisor:control", "uri"),
                0)

\* migrate_step2 as it would be if the thread were started with whatever
\* the reply holds
migrate_step2_starts_thread(s, has_uri) ==
    LET s1 == IF has_uri THEN s ELSE [s EXCEPT !.is_migrating = FALSE]
        s2 == change_presence(s1, s1.xmppstatusshow, "Migrating...")
    IN Logged([s2 EXCEPT !.migration = "step3"], "thread", "migrate_step3", "")

\* migrate_step2 as it would be if it cleared self.is_migrating once the
\* thread is started
migrate_step2_clears_flag(s, has_uri) ==
    LET s2 == change_presence([s EXCEPT !.is_migrating = FALSE],
                              s.xmppstatusshow, "Migrating...")
    IN IF has_uri
       THEN Logged([s2 EXCEPT !.migration = "step3"], "thread", "migrate_step3", "")
       ELSE [s2 EXCEPT !.migration = "idle"]

\* migrate_step2(conn, resp); has_uri: the reply carries query/uri.  When it
\* does not, remote_hypervisor_uri is unbound and starting the thread raises.
migrate_step2(s, has_uri) ==
    LET s1 == IF has_uri THEN s ELSE [s EXCEPT !.is_migrating = FALSE]
        s2 == change_presence(s1, s1.xmppstatusshow, "Migrating...")
    IN IF has_uri
       THEN Logged([s2 EXCEPT !.migration = "step3"], "thread", "migrate_step3", "")
       ELSE [s2 EXCEPT !.migration = "idle"]

\* migrate_step3 as it would be if the except clause left self.is_migrating
migrate_step3_keeps_flag(s, err) ==
    LET e == driver_error(s, "migrateToURI", err)
        s1 == driver_call(s, "migrateToURI")
        s0 == IF s.domain THEN s1 ELSE s
    IN IF ~s.domain \/ e # 0
       THEN Logged(change_presence([s0 EXCEPT !.migration = "idle"],
                                   s0.xmppstatusshow, "Can't migrate."),
                   "shout", "migration", "")
       ELSE driver_emit([s1 EXCEPT !.drv_state = VIR_DOMAIN_SHUTOFF,
                                   !.migration = "done"],
                        VIR_DOMAIN_EVENT_STOPPED, VIR_DOMAIN_EVENT_STOPPED_MIGRATED)

\* migrate_step3(remote_hypervisor_uri); err: the error of migrateToURI.
\* On success the domain runs on the destination and is shut off here.
migrate_step3(s, err) ==
    LET e == driver_error(s, "migrateToURI", err)
        s1 == driver_call(s, "migrateToURI")
        s0 == IF s.domain THEN s1 ELSE s
    IN IF ~s.domain \/ e # 0
       THEN Logged(change_presence([s0 EXCEPT !.is_migrating = FALSE,
                                              !.migration = "idle"],
                                   s0.xmppstatusshow, "Can't migrate."),
                   "shout", "migration", "")
       ELSE driver_emit([s1 EXCEPT !.drv_state = VIR_DOMAIN_SHUTOFF,
                                   !.migration = "done"],
                        VIR_DOMAIN_EVENT_STOPPED, VIR_DOMAIN_EVENT_STOPPED_MIGRATED)

\* ----------------------------------------------------------------------
\* XMPP controls: the IQ handlers
\* ----------------------------------------------------------------------
\* iq.buildReply("result") with a payload, and build_error_iq(..., code, ns)
Result(s, payload) ==
    [s EXCEPT !.reply = [type |-> "result", code |-> 0, ns |-> "", payload |-> payload]]
Ignore(s) ==
    [s EXCEPT !.reply = [type |-> "ignore", code |-> 0, ns |-> "", payload |-> <<>>]]
build_error_iq(s, code, ns) ==
    [s EXCEPT !.reply = [type |-> "error", code |-> code, ns |-> ns, payload |-> <<>>]]

\* The line of the log that says a handler was entered.
Handler(s, name) == Logged(s, "handler", name, "")

\* The except clauses as they would be without self.unlock()
reply_without_unlock(r, code, ns) ==
    IF r.exc[1] = "libvirtError"
    THEN build_error_iq(r.s, r.exc[2], ns)
    ELSE build_error_iq(r.s, code, "")

\* The except clauses of the lock-taking handlers: both unlock, then reply.
unlock_and_reply(r, code, ns) ==
    IF r.exc[1] = "libvirtError"
    THEN build_error_iq(unlock(r.s), r.exc[2], ns)
    ELSE build_error_iq(unlock(r.s), code, "")

iq_create(s0, err) ==
    LET s == Handler(s0, "iq_create")
    IN IF s.locked THEN build_error_iq(s, ARCHIPEL_ERROR_CODE_VM_LOCKED, "")
       ELSE LET r == create(s, err)
            IN IF r.exc = <<>> THEN Result(r.s, <<"domain", r.val>>)
               ELSE unlock_and_reply(r, ARCHIPEL_ERROR_CODE_VM_CREATE,
                                     ARCHIPEL_NS_LIBVIRT_GENERIC_ERROR)

\* iq_shutdown as it would be without the test of self.locked
iq_shutdown_ungated(s0, err) ==
    LET s == Handler(s0, "iq_shutdown")
        r == shutdown(s, err)
    IN IF r.exc = <<>> THEN Result(r.s, <<>>)
       ELSE unlock_and_reply(r, ARCHIPEL_ERROR_CODE_VM_SHUTDOWN,
                             ARCHIPEL_NS_LIBVIRT_GENERIC_ERROR)

iq_shutdown(s0, err) ==
    LET s == Handler(s0, "iq_shutdown")
    IN IF s.locked THEN build_error_iq(s, ARCHIPEL_ERROR_CODE_VM_LOCKED, "")
       ELSE LET r == shutdown(s, err)
            IN IF r.exc = <<>> THEN Result(r.s, <<>>)
               ELSE unlock_and_reply(r, ARCHIPEL_ERROR_CODE_VM_SHUTDOWN,
                                     ARCHIPEL_NS_LIBVIRT_GENERIC_ERROR)

iq_destroy(s0, err) ==
    LET s == Handler(s0, "iq_destroy")
    IN IF s.locked THEN build_error_iq(s, ARCHIPEL_ERROR_CODE_VM_LOCKED, "")
       ELSE LET r == destroy(s, err)
            IN IF r.exc = <<>> THEN Result(r.s, <<>>)
               ELSE unlock_and_reply(r, ARCHIPEL_ERROR_CODE_VM_DESTROY,
                                     ARCHIPEL_NS_LIBVIRT_GENERIC_ERROR)

\* iq_reboot: the libvirtError reply carries no namespace
iq_reboot(s0, err) ==
    LET s == Handler(s0, "iq_reboot")
    IN IF s.locked THEN build_error_iq(s, ARCHIPEL_ERROR_CODE_VM_LOCKED, "")
       ELSE LET r == reboot(s, err)
            IN IF r.exc = <<>> THEN Result(r.s, <<>>)
               ELSE unlock_and_reply(r, ARCHIPEL_ERROR_CODE_VM_REBOOT, "")

iq_suspend(s0, err) ==
    LET s == Handler(s0, "iq_suspend")
    IN IF s.locked THEN build_error_iq(s, ARCHIPEL_ERROR_CODE_VM_LOCKED, "")
       ELSE LET r == suspend(s, err)
            IN IF r.exc = <<>> THEN Result(r.s, <<>>)
               ELSE unlock_and_reply(r, ARCHIPEL_ERROR_CODE_VM_SUSPEND,
                                     ARCHIPEL_NS_LIBVIRT_GENERIC_ERROR)

iq_resume(s0, err) ==
    LET s == Handler(s0, "iq_resume")
    IN IF s.locked THEN build_error_iq(s, ARCHIPEL_ERROR_CODE_VM_LOCKED, "")
       ELSE LET r == resume(s, err)
            IN IF r.exc = <<>> THEN Result(r.s, <<>>)
               ELSE unlock_and_reply(r, ARCHIPEL_ERROR_CODE_VM_RESUME,
                                     ARCHIPEL_NS_LIBVIRT_GENERIC_ERROR)

\* The except clauses of the handlers that take no lock of their own.
error_reply(r, code) ==
    IF r.exc[1] = "libvirtError"
    THEN build_error_iq(r.s, r.exc[2], ARCHIPEL_NS_LIBVIRT_GENERIC_ERROR)
    ELSE build_error_iq(r.s, code, "")

iq_migrate(s0, hypervisorjid) ==
    LET s == Handler(s0, "iq_migrate")
        r == migrate_step1(s, hypervisorjid)
    IN IF r.exc = <<>> THEN Result(r.s, <<>>)
       ELSE build_error_iq(r.s, ARCHIPEL_ERROR_CODE_VM_MIGRATE, "")

iq_info(s0, err) ==
    LET s == Handler(s0, "iq_info")
        e == driver_error(s, "info", err)
    IN IF ~s.domain THEN Ignore(s)
       ELSE IF e = VIR_ERR_NO_DOMAIN THEN Result(driver_call(s, "info"), <<>>)
       ELSE IF e # 0
       THEN build_error_iq(driver_call(s, "info"), e, ARCHIPEL_NS_LIBVIRT_GENERIC_ERROR)
       ELSE Result(driver_call(s, "info"), <<"info", s.drv_state>>)

\* xmldesc() as it would be if it returned the driver's XML as it is
xmldesc_with_description(doc) == doc

\* xmldesc(): the driver's XML without its first description child
xmldesc(doc) ==
    IF doc.description # <<>>
    THEN [doc EXCEPT !.description = Tail(@)]
    ELSE doc

\* iq_xmldesc as it would be without the test of self.domain: the call on
\* the None handle raises AttributeError, answered by the same clause
iq_xmldesc_without_test(s0, err) ==
    LET s == Handler(s0, "iq_xmldesc")
        e == driver_error(s, "XMLDesc", err)
    IN IF ~s.domain
       THEN build_error_iq(Logged(s, "raise", "AttributeError", "XMLDesc"),
                           ARCHIPEL_ERROR_CODE_VM_XMLDESC, "")
       ELSE IF e # 0
       THEN build_error_iq(driver_call(s, "XMLDesc"), e, ARCHIPEL_NS_LIBVIRT_GENERIC_ERROR)
       ELSE Result(driver_call(s, "XMLDesc"), <<"xmldesc", xmldesc(s.drv_xml[1])>>)

\* iq_xmldesc: a None handle raises Exception("not-defined") (the log says
\* so: the text of the error reply is the text of the exception)
iq_xmldesc(s0, err) ==
    LET s == Handler(s0, "iq_xmldesc")
        e == driver_error(s, "XMLDesc", err)
    IN IF ~s.domain
       THEN build_error_iq(Logged(s, "raise", "Exception", "not-defined"),
                           ARCHIPEL_ERROR_CODE_VM_XMLDESC, "")
       ELSE IF e # 0
       THEN build_error_iq(driver_call(s, "XMLDesc"), e, ARCHIPEL_NS_LIBVIRT_GENERIC_ERROR)
       ELSE Result(driver_call(s, "XMLDesc"), <<"xmldesc", xmldesc(s.drv_xml[1])>>)

\* message_xmldesc(msg): str(self.xmldesc()); an exception leaves the
\* command without a document
message_xmldesc(s0, err) ==
    LET s == Handler(s0, "message_xmldesc")
        e == driver_error(s, "XMLDesc", err)
    IN IF ~s.domain
       THEN [s EXCEPT !.reply = [type |-> "exception", code |-> 0, ns |-> "",
                                 payload |-> <<>>]]
       ELSE IF e # 0
       THEN [driver_call(s, "XMLDesc")
               EXCEPT !.reply = [type |-> "exception", code |-> e, ns |-> "",
                                 payload |-> <<>>]]
       ELSE [driver_call(s, "XMLDesc")
               EXCEPT !.reply = [type |-> "message", code |-> 0, ns |-> "",
                                 payload |-> <<"xmldesc", xmldesc(s.drv_xml[1])>>]]

\* iq_networkinfo as it would be with the test of self.locked the state
\* changing handlers make
iq_networkinfo_gated(s0, err) ==
    LET s == Handler(s0, "iq_networkinfo")
        e == driver_error(s, "XMLDesc", err)
    IN IF s.locked THEN build_error_iq(s, ARCHIPEL_ERROR_CODE_VM_LOCKED, "")
       ELSE IF ~s.domain THEN Ignore(s)
       ELSE IF e = VIR_ERR_NO_DOMAIN THEN Result(driver_call(s, "XMLDesc"), <<>>)
       ELSE IF e # 0
       THEN build_error_iq(driver_call(s, "XMLDesc"), e, ARCHIPEL_NS_LIBVIRT_GENERIC_ERROR)
       ELSE Result(driver_call(driver_call(s, "XMLDesc"), "interfaceStats"),
                   <<"network">>)

iq_networkinfo(s0, err) ==
    LET s == Handler(s0, "iq_networkinfo")
        e == driver_error(s, "XMLDesc", err)
    IN IF ~s.domain THEN Ignore(s)
       ELSE IF e = VIR_ERR_NO_DOMAIN THEN Result(driver_call(s, "XMLDesc"), <<>>)
       ELSE IF e # 0
       THEN build_error_iq(driver_call(s, "XMLDesc"), e, ARCHIPEL_NS_LIBVIRT_GENERIC_ERROR)
       ELSE Result(driver_call(driver_call(s, "XMLDesc"), "interfaceStats"),
                   <<"network">>)

iq_autostart(s0, err) ==
    LET s == Handler(s0, "iq_autostart")
        e == driver_error(s, "setAutostart", err)
    IN IF ~s.domain THEN build_error_iq(s, ARCHIPEL_ERROR_CODE_VM_AUTOSTART, "")
       ELSE IF e # 0
       THEN build_error_iq(driver_call(s, "setAutostart"), e,
                           ARCHIPEL_NS_LIBVIRT_GENERIC_ERROR)
       ELSE Result(driver_call(s, "setAutostart"), <<>>)

\* A Timer(1.0, self.memoryTimer, kwargs) that was started, as a line of
\* the log.
start_memory_timer(s, requestedMemory, retry) ==
    Logged(s, "timer", "memoryTimer",
           [requestedMemory |-> requestedMemory, retry |-> retry])

\* setMemory(value): the value is raised to 10, the driver called, and the
\* first poll scheduled with the default retry=3
setMemory(s, value, err) ==
    LET v == IF value < 10 THEN 10 ELSE value
        e == driver_error(s, "setMemory", err)
    IN IF ~s.domain THEN RaiseException(s)
       ELSE IF e # 0 THEN RaiseLibvirtError(driver_call(s, "setMemory"), e)
       ELSE Return(start_memory_timer(driver_call(s, "setMemory"), v, 3), 0)

\* memoryTimer(requestedMemory, retry), run by a Timer thread; memory is
\* what self.info()["memory"] reads.  An exception of info() (a None
\* handle, a domain the driver no longer knows) ends the thread.
memoryTimer(s, requestedMemory, retry, memory) ==
    LET i == info(s)
        s1 == driver_call(s, "info")
    IN IF i[1] = "exception" THEN Logged(s, "error", "memoryTimer", i[1])
       ELSE IF i[1] = "libvirtError" THEN Logged(s1, "error", "memoryTimer", i[1])
       ELSE IF (requestedMemory \div memory) \in {0, 1}
       THEN push_change(s1, "virtualmachine:control", "memory")
       ELSE IF retry > 0
       THEN start_memory_timer(s1, requestedMemory, retry - 1)
       ELSE push_change(s1, "virtualmachine:control", "memory")

\* iq_memory: setMemory() calls the driver and starts the polling timer
iq_memory(s0, value, err) ==
    LET s == Handler(s0, "iq_memory")
        r == setMemory(s, value, err)
    IN IF r.exc = <<>> THEN Result(r.s, <<>>)
       ELSE error_reply(r, ARCHIPEL_ERROR_CODE_VM_MEMORY)

\* iq_setvcpus: no test of self.locked; a failure is answered with the
\* memory error code and leaves the lock as setVCPUs left it
iq_setvcpus(s0, value, err) ==
    LET s == Handler(s0, "iq_setvcpus")
        r == setVCPUs(s, value, err)
    IN IF r.exc = <<>>
       THEN Result(push_change(push_change(r.s, "virtualmachine:control", "nvcpu"),
                               "virtualmachine:definition", "nvcpu"),
                   <<>>)
       ELSE error_reply(r, ARCHIPEL_ERROR_CODE_VM_MEMORY)

\* iq_free: free() fires the hook and asks the hypervisor to free the agent
iq_free(s0) ==
    LET s == Handler(s0, "iq_free")
    IN Result(Logged(perform_hooks(s, "HOOK_VM_FREE"), "hypervisor", "free", ""),
              <<>>)

\* iq_define as it would be without the comparison of the uuids
iq_define_any_uuid(s0, domain_node, err, info_err) ==
    LET s == Handler(s0, "iq_define")
        r == define(s, domain_node, err, info_err)
    IN IF r.exc = <<>> THEN Result(r.s, <<>>)
       ELSE error_reply(r, ARCHIPEL_ERROR_CODE_VM_DEFINE)

iq_define(s0, domain_node, err, info_err) ==
    LET s == Handler(s0, "iq_define")
    IN IF domain_node.uuid = "none" \/ domain_node.uuid # UUID
       THEN build_error_iq(s, ARCHIPEL_ERROR_CODE_VM_DEFINE, "")
       ELSE LET r == define(s, domain_node, err, info_err)
            IN IF r.exc = <<>> THEN Result(r.s, <<>>)
               ELSE error_reply(r, ARCHIPEL_ERROR_CODE_VM_DEFINE)

\* iq_undefine: an error other than libvirt's carries the destroy code
iq_undefine(s0, err) ==
    LET s == Handler(s0, "iq_undefine")
        r == undefine(s, err)
    IN IF r.exc = <<>> THEN Result(r.s, <<>>)
       ELSE error_reply(r, ARCHIPEL_ERROR_CODE_VM_DESTROY)

iq_capabilities(s0) ==
    Result(Handler(s0, "iq_capabilities"), <<"capabilities">>)

\* ----------------------------------------------------------------------
\* Request router
\* ----------------------------------------------------------------------
ControlActions ==
    {"info", "create", "shutdown", "destroy", "reboot", "suspend", "resume",
     "xmldesc", "migrate", "autostart", "memory", "setvcpus", "networkinfo",
     "free"}
DefinitionActions == {"define", "undefine", "capabilities"}
\* action attributes no handler is written for
UnknownControlActions == {"foo"}
UnknownDefinitionActions == {"foo", "cap"}

\* The characters of the action names the definition namespace is sent.
Chars(a) ==
    CASE a = "capabilities" -> <<"c", "a", "p", "a", "b", "i", "l", "i", "t", "i", "e", "s">>
      [] a = "define" -> <<"d", "e", "f", "i", "n", "e">>
      [] a = "undefine" -> <<"u", "n", "d", "e", "f", "i", "n", "e">>
      [] a = "cap" -> <<"c", "a", "p">>
      [] a = "foo" -> <<"f", "o", "o">>

\* Python's  x in y  on two strings: x occurs in y
StringIn(x, y) ==
    \E i \in 1 .. (Len(y) - Len(x) + 1) : SubSeq(y, i, i + Len(x) - 1) = x

\* "not action in ("capabilities")": the parentheses make no tuple, the
\* operand is the string itself
NotInCapabilities(action) == ~StringIn(Chars(action), Chars("capabilities"))

\* check_perm(conn, iq, action, -1) on a subject without the permission
permission_denied(s) == build_error_iq(s, PERMISSION_ERROR_CODE, "archipel:error:permission")

\* __process_iq_archipel_control(conn, iq)
process_iq_archipel_control(s, q) ==
    IF ~q.permitted THEN permission_denied(s)
    ELSE IF ~s.libvirt_connection THEN s
    ELSE IF s.is_migrating /\ q.action \notin {"info", "xmldesc", "networkinfo"}
    THEN build_error_iq(s, ARCHIPEL_ERROR_CODE_VM_MIGRATING, "")
    ELSE CASE q.action = "info" -> iq_info(s, q.err)
           [] q.action = "create" -> iq_create(s, q.err)
           [] q.action = "shutdown" -> iq_shutdown(s, q.err)
           [] q.action = "destroy" -> iq_destroy(s, q.err)
           [] q.action = "reboot" -> iq_reboot(s, q.err)
           [] q.action = "suspend" -> iq_suspend(s, q.err)
           [] q.action = "resume" -> iq_resume(s, q.err)
           [] q.action = "xmldesc" -> iq_xmldesc(s, q.err)
           [] q.action = "migrate" -> iq_migrate(s, q.arg[1])
           [] q.action = "autostart" -> iq_autostart(s, q.err)
           [] q.action = "memory" -> iq_memory(s, q.arg[1], q.err)
           [] q.action = "setvcpus" -> iq_setvcpus(s, q.arg[1], q.err)
           [] q.action = "networkinfo" -> iq_networkinfo(s, q.err)
           [] q.action = "free" -> iq_free(s)
           [] OTHER -> s

\* __process_iq_archipel_definition(conn, iq)
process_iq_archipel_definition(s, q) ==
    IF ~q.permitted THEN permission_denied(s)
    ELSE IF s.is_migrating /\ NotInCapabilities(q.action)
    THEN build_error_iq(s, ARCHIPEL_ERROR_CODE_VM_MIGRATING, "")
    ELSE CASE q.action = "define" -> iq_define(s, q.arg[1], q.err, q.info_err)
           [] q.action = "undefine" -> iq_undefine(s, q.err)
           [] q.action = "capabilities" -> iq_capabilities(s)
           [] OTHER -> s

\* ----------------------------------------------------------------------
\* Chat commands
\* ----------------------------------------------------------------------
\* What a chat command is answered: the text of its handler, or the text
\* build_error_message makes of an exception.
Message(s, payload) ==
    [s EXCEPT !.reply = [type |-> "message", code |-> 0, ns |-> "", payload |-> payload]]
build_error_message(s) ==
    [s EXCEPT !.reply = [type |-> "error_message", code |-> 0, ns |-> "", payload |-> <<>>]]

\* message_create, message_shutdown, message_destroy, message_suspend and
\* message_resume: the control, then a text; no test of self.locked and no
\* unlock() in the except clause
MessageOf(r) == IF r.exc = <<>> THEN Message(r.s, <<>>) ELSE build_error_message(r.s)
message_create(s, err) == MessageOf(create(Handler(s, "message_create"), err))
message_shutdown(s, err) == MessageOf(shutdown(Handler(s, "message_shutdown"), err))
message_destroy(s, err) == MessageOf(destroy(Handler(s, "message_destroy"), err))
message_suspend(s, err) == MessageOf(suspend(Handler(s, "message_suspend"), err))
message_resume(s, err) == MessageOf(resume(Handler(s, "message_resume"), err))

message_info(s0, err) ==
    LET s == Handler(s0, "message_info")
    IN IF ~s.domain THEN build_error_message(s)
       ELSE IF driver_error(s, "info", err) # 0
       THEN build_error_message(driver_call(s, "info"))
       ELSE Message(driver_call(s, "info"), <<"info", s.drv_state>>)

message_networkinfo(s0, err) ==
    LET s == Handler(s0, "message_networkinfo")
    IN IF ~s.domain THEN build_error_message(s)
       ELSE IF driver_error(s, "XMLDesc", err) # 0
       THEN build_error_message(driver_call(s, "XMLDesc"))
       ELSE Message(driver_call(driver_call(s, "XMLDesc"), "interfaceStats"),
                    <<"network">>)

\* init_vocabulary(): the items handed to the registrar, without the two
\* items that only answer with a text.  An item without a "permissions"
\* entry names no permission.
registrar_items ==
    { [commands |-> {"start", "create", "boot", "play", "run"},
       method |-> "message_create", permissions |-> {"create"}],
      [commands |-> {"shutdown", "stop"},
       method |-> "message_shutdown", permissions |-> {"shutdown"}],
      [commands |-> {"destroy"},
       method |-> "message_destroy", permissions |-> {"destroy"}],
      [commands |-> {"pause", "suspend"},
       method |-> "message_suspend", permissions |-> {"suspend"}],
      [commands |-> {"resume", "unpause"},
       method |-> "message_resume", permissions |-> {"resume"}],
      [commands |-> {"info", "how are you", "and you"},
       method |-> "message_info", permissions |-> {"info"}],
      [commands |-> {"desc", "xml"},
       method |-> "message_xmldesc", permissions |-> {}],
      [commands |-> {"net", "stat"},
       method |-> "message_networkinfo", permissions |-> {"networkinfo"}] }

\* The registrar's dispatch of a chat message m (its command, the
\* permissions its sender holds, the driver's error in the handler): the
\* item of the command; the sender must hold the permissions the item
\* names; then the item's method.
process_message(s, m) ==
    LET item == CHOOSE i \in registrar_items : m.command \in i.commands
    IN IF ~(item.permissions \subseteq m.held) THEN permission_denied(s)
       ELSE CASE item.method = "message_create" -> message_create(s, m.err)
              [] item.method = "message_shutdown" -> message_shutdown(s, m.err)
              [] item.method = "message_destroy" -> message_destroy(s, m.err)
              [] item.method = "message_suspend" -> message_suspend(s, m.err)
              [] item.method = "message_resume" -> message_resume(s, m.err)
              [] item.method = "message_info" -> message_info(s, m.err)
              [] item.method = "message_xmldesc" -> message_xmldesc(s, m.err)
              [] item.method = "message_networkinfo" -> message_networkinfo(s, m.err)

\* The requests of the model: the action, whether the sender holds the
\* permission, the argument, and the errors the driver raises in the
\* handler (err) and in set_presence_according_to_libvirt_info (info_err);
\* 0: none.  An error is drawn only where the handler calls the driver, and
\* VIR_ERR_NO_DOMAIN only where the code tells it from the other codes.
ErrorChoices == {0} \cup DriverErrorCodes

ControlErrors(action) ==
    CASE action \in {"info", "networkinfo"} -> ErrorChoices
      [] action \in {"migrate", "free"} \cup UnknownControlActions -> {0}
      [] OTHER -> {0, VIR_ERR_OPERATION_INVALID}

\* The amounts of memory a request may ask for, and those the driver may
\* report for the domain.
MemoryRequests == {5, 40}
MemoryValues == {10, 20, 40}

ControlArgs(action) ==
    CASE action = "migrate" -> {<<PEER_JID>>, <<HYPERVISOR_JID>>}
      [] action = "setvcpus" -> {<<v>> : v \in 1 .. (MaxVcpus + 1)}
      [] action = "memory" -> {<<v>> : v \in MemoryRequests}
      [] OTHER -> {<<>>}

Request(a, p, x, e, i) ==
    [action |-> a, permitted |-> p, arg |-> x, err |-> e, info_err |-> i]

ControlRequests ==
    UNION {{Request(a, TRUE, x, e, 0) : x \in ControlArgs(a), e \in ControlErrors(a)}
           \cup {Request(a, FALSE, x, 0, 0) : x \in ControlArgs(a)} :
           a \in ControlActions \cup UnknownControlActions}

DefinitionArgs(action) ==
    IF action = "define" THEN {<<d>> : d \in RequestDocs} ELSE {<<>>}

DefinitionErrors(action) ==
    CASE action = "define" ->
           {<<0, i>> : i \in ErrorChoices} \cup {<<VIR_ERR_OPERATION_INVALID, 0>>}
      [] action = "undefine" -> {<<0, 0>>, <<VIR_ERR_OPERATION_INVALID, 0>>}
      [] OTHER -> {<<0, 0>>}

DefinitionRequests ==
    UNION {{Request(a, TRUE, x, e[1], e[2]) :
              x \in DefinitionArgs(a), e \in DefinitionErrors(a)}
           \cup {Request(a, FALSE, x, 0, 0) : x \in DefinitionArgs(a)} :
           a \in DefinitionActions \cup UnknownDefinitionActions}

\* ----------------------------------------------------------------------
\* Session start
\* ----------------------------------------------------------------------
\* add_trigger(name, description): a name self.triggers holds is left
\* alone; a new trigger starts off and its row is inserted and committed
add_trigger(s, name) ==
    IF name \in s.triggers
    THEN s
    ELSE [s EXCEPT !.triggers = @ \cup {name},
                   !.libvirt_run = IF name = "libvirt_run" THEN "off" ELSE @,
                   !.trigger_database.triggers = Append(@, name)]

\* remove_trigger(name): the rows of that name are deleted and committed,
\* the trigger dropped
remove_trigger(s, name) ==
    IF name \notin s.triggers
    THEN s
    ELSE [s EXCEPT !.triggers = @ \ {name},
                   !.libvirt_run = IF name = "libvirt_run" THEN "absent" ELSE @,
                   !.trigger_database.triggers = SelectSeq(@, LAMBDA n : n # name)]

\* add_watcher(name, targetjid, triggername, onaction, offaction, state):
\* the row holds the names of the two methods; watch() when state is on
add_watcher(s, name, triggername, onaction, offaction, state) ==
    IF \E w \in s.watchers : w.name = name
    THEN s
    ELSE LET row == [name |-> name, triggername |-> triggername,
                     triggeronaction |-> onaction, triggeroffaction |-> offaction,
                     state |-> state]
             s1 == [s EXCEPT !.trigger_database.watchers = Append(@, row),
                             !.watchers = @ \cup {[name |-> name, watching |-> FALSE]}]
         IN IF state = ARCHIPEL_WATCHER_STATE_ON
            THEN Logged([s1 EXCEPT !.watchers =
                            {w \in @ : w.name # name}
                              \cup {[name |-> name, watching |-> TRUE]}],
                        "watch", name, "")
            ELSE s1

\* remove_watcher(name, force): "delete from watchers where
\* triggername='%s'" % name deletes the rows whose triggername column is
\* the name; then unwatch() and del, a KeyError when force finds no watcher
remove_watcher(s, name, force) ==
    IF ~force /\ ~(\E w \in s.watchers : w.name = name)
    THEN s
    ELSE LET s1 == [s EXCEPT !.trigger_database.watchers =
                                SelectSeq(@, LAMBDA row : row.triggername # name)]
         IN IF \E w \in s.watchers : w.name = name
            THEN Logged([s1 EXCEPT !.watchers = {w \in @ : w.name # name}],
                        "unwatch", name, "")
            ELSE Logged(s1, "error", "remove_watcher", name)

\* The names in the watchers table that getattr(self, name) finds on the
\* agent, and one it does not find.
AgentMethods == {"create", "shutdown"}
ActionNames == AgentMethods \cup {"no_such_method"}

\* the loop over "select * from triggers": each row makes a new trigger,
\* which starts off, under its name
RECURSIVE recover_triggers(_, _)
recover_triggers(s, rows) ==
    IF rows = <<>> THEN s
    ELSE LET name == Head(rows)
             s1 == [s EXCEPT !.triggers = @ \cup {name},
                             !.libvirt_run = IF name = "libvirt_run" THEN "off" ELSE @]
         IN recover_triggers(s1, Tail(rows))

\* self.watchers[name] = watcher
set_watcher(s, name, watching) ==
    [s EXCEPT !.watchers = {w \in @ : w.name # name}
                           \cup {[name |-> name, watching |-> watching]}]

\* the body of the loop over "select * from watchers": getattr raises for
\* a name the agent has not, the except clause logs it
recover_watcher(s, row) ==
    IF row.triggeronaction \in AgentMethods /\ row.triggeroffaction \in AgentMethods
    THEN IF row.state = ARCHIPEL_WATCHER_STATE_ON
         THEN Logged(set_watcher(s, row.name, TRUE), "watch", row.name, "")
         ELSE set_watcher(s, row.name, FALSE)
    ELSE Logged(s, "error", row.name, "")

\* the loop over "select * from watchers" as it would be with the try
\* statement around the loop
RECURSIVE recover_watchers_until_error(_, _)
recover_watchers_until_error(s, rows) ==
    IF rows = <<>> THEN s
    ELSE LET s1 == recover_watcher(s, Head(rows))
         IN IF Entries(s1.log, "error") # {} THEN s1
            ELSE recover_watchers_until_error(s1, Tail(rows))

\* the loop over "select * from watchers"
RECURSIVE recover_watchers(_, _)
recover_watchers(s, rows) ==
    IF rows = <<>> THEN s
    ELSE recover_watchers(recover_watcher(s, Head(rows)), Tail(rows))

manage_trigger_persistance(s) ==
    add_trigger(
        recover_watchers(recover_triggers(s, s.trigger_database.triggers),
                         s.trigger_database.watchers),
        "libvirt_run")

\* The methods registered on HOOK_ARCHIPELENTITY_XMPP_AUTHENTICATED, in
\* order: manage_trigger_persistance, connect_domain, manage_vcard_hook.
xmpp_authenticated(s, info_err) ==
    connect_domain(manage_trigger_persistance([s EXCEPT !.authenticated = TRUE]),
                   info_err)

\* ----------------------------------------------------------------------
\* The state machine
\* ----------------------------------------------------------------------
HypervisorTypes ==
    {ARCHIPEL_HYPERVISOR_TYPE_QEMU, ARCHIPEL_HYPERVISOR_TYPE_XEN, HYPERVISOR_TYPE_OTHER}

\* The agent after __init__ and the driver it is given.
InitAgent ==
    /\ authenticated = FALSE
    /\ libvirt_connection = TRUE
    /\ hyp \in HypervisorTypes
    /\ domain = FALSE
    /\ definition = <<>>
    /\ libvirt_status = VIR_DOMAIN_SHUTDOWN
    /\ locked = FALSE
    /\ lock_timer = "none"
    /\ stale_timers = 0
    /\ is_migrating = FALSE
    /\ callback_id = FALSE
    /\ registrations = 0
    /\ libvirt_run = "absent"
    /\ xmppstatusshow = "unset"
    /\ xmppstatus = "unset"
    /\ migration = "idle"
    /\ drv_defined \in BOOLEAN
    /\ drv_state \in IF drv_defined THEN DomainStates ELSE {VIR_DOMAIN_SHUTOFF}
    /\ drv_xml = IF drv_defined THEN <<DefinedDoc>> ELSE <<>>
    /\ events = <<>>
    /\ triggers = {}
    /\ watchers = {}
    /\ drv_memory = 20
    /\ memory_timers = {}
    /\ memory_polls = <<>>
    /\ shutdown_pc = "idle"

\* A VM whose folder is new: sqlite3.connect creates an empty database.
Init ==
    /\ InitAgent
    /\ trigger_database = [triggers |-> <<>>, watchers |-> <<>>]

\* The step ends in the state of record s.
CommitFields(s) ==
    /\ s.stale_timers <= MaxStale
    /\ Len(s.events) <= MaxEvents
    /\ s.registrations <= MaxRegistrations
    /\ authenticated' = s.authenticated
    /\ libvirt_connection' = s.libvirt_connection
    /\ hyp' = s.hyp
    /\ domain' = s.domain
    /\ definition' = s.definition
    /\ libvirt_status' = s.libvirt_status
    /\ locked' = s.locked
    /\ lock_timer' = s.lock_timer
    /\ stale_timers' = s.stale_timers
    /\ is_migrating' = s.is_migrating
    /\ callback_id' = s.callback_id
    /\ registrations' = s.registrations
    /\ libvirt_run' = s.libvirt_run
    /\ xmppstatusshow' = s.xmppstatusshow
    /\ xmppstatus' = s.xmppstatus
    /\ migration' = s.migration
    /\ drv_defined' = s.drv_defined
    /\ drv_state' = s.drv_state
    /\ drv_xml' = s.drv_xml
    /\ events' = s.events
    /\ trigger_database' = s.trigger_database
    /\ triggers' = s.triggers
    /\ watchers' = s.watchers

\* A step that is not followed into the polling thread of setMemory, which
\* writes no field of the agent; SpecMemory follows it.
Commit(s) ==
    /\ CommitFields(s)
    /\ UNCHANGED <<drv_memory, memory_timers, memory_polls, shutdown_pc>>

Authenticated ==
    /\ ~authenticated
    /\ libvirt_connection
    /\ \E info_err \in ErrorChoices :
         Commit(xmpp_authenticated(State, info_err))

ControlRequest ==
    /\ authenticated
    /\ \E q \in ControlRequests :
         Commit(process_iq_archipel_control(State, q))

DefinitionRequest ==
    /\ authenticated
    /\ \E q \in DefinitionRequests :
         Commit(process_iq_archipel_definition(State, q))

\* The driver delivers its oldest undelivered event to every registered
\* callback.
deliver(s) ==
    LET e == Head(s.events)
        s1 == on_domain_event([s EXCEPT !.events = Tail(@)], e[1], e[2])
    IN IF s.registrations > 1 THEN on_domain_event(s1, e[1], e[2]) ELSE s1

DomainEvent ==
    /\ events # <<>>
    /\ registrations > 0
    /\ Commit(deliver(State))

\* The lifecycle changes that come from the guest or from another client of
\* the driver: the event, its detail, the states it happens in and the
\* state it leaves.
DriverChanges ==
    {<<VIR_DOMAIN_EVENT_STARTED, VIR_DOMAIN_EVENT_STARTED_BOOTED,
       DomainStates \ ActiveStates, VIR_DOMAIN_RUNNING>>,
     <<VIR_DOMAIN_EVENT_STARTED, VIR_DOMAIN_EVENT_STARTED_MIGRATED,
       DomainStates \ ActiveStates, VIR_DOMAIN_RUNNING>>,
     <<VIR_DOMAIN_EVENT_SUSPENDED, VIR_DOMAIN_EVENT_SUSPENDED_PAUSED,
       {VIR_DOMAIN_RUNNING, VIR_DOMAIN_BLOCKED}, VIR_DOMAIN_PAUSED>>,
     <<VIR_DOMAIN_EVENT_SUSPENDED, VIR_DOMAIN_EVENT_SUSPENDED_MIGRATED,
       {VIR_DOMAIN_RUNNING, VIR_DOMAIN_BLOCKED}, VIR_DOMAIN_PAUSED>>,
     <<VIR_DOMAIN_EVENT_RESUMED, VIR_DOMAIN_EVENT_RESUMED_UNPAUSED,
       {VIR_DOMAIN_PAUSED}, VIR_DOMAIN_RUNNING>>,
     <<VIR_DOMAIN_EVENT_RESUMED, VIR_DOMAIN_EVENT_RESUMED_MIGRATED,
       {VIR_DOMAIN_PAUSED}, VIR_DOMAIN_RUNNING>>,
     <<VIR_DOMAIN_EVENT_STOPPED, VIR_DOMAIN_EVENT_STOPPED_SHUTDOWN,
       ActiveStates, VIR_DOMAIN_SHUTOFF>>,
     <<VIR_DOMAIN_EVENT_STOPPED, VIR_DOMAIN_EVENT_STOPPED_MIGRATED,
       ActiveStates, VIR_DOMAIN_SHUTOFF>>,
     <<VIR_DOMAIN_EVENT_SHUTDOWN, 0,
       {VIR_DOMAIN_RUNNING, VIR_DOMAIN_BLOCKED}, VIR_DOMAIN_SHUTDOWN>>}

driver_change(s, c) ==
    driver_emit([s EXCEPT !.drv_state = c[4]], c[1], c[2])

DriverChange ==
    /\ drv_defined
    /\ migration \notin {"step3", "done"}
    /\ \E c \in DriverChanges :
         /\ drv_state \in c[3]
         /\ Commit(driver_change(State, c))

\* A safety timer expires and calls unlock(): the one self.lock_timer
\* refers to, or one an earlier lock() left pending.
timer_fires(s, current) ==
    IF current THEN unlock([s EXCEPT !.lock_timer = "none"])
    ELSE unlock([s EXCEPT !.stale_timers = @ - 1])

\* disconnect(): the callback is deregistered, the connection closed and
\* self.libvirt_connection set to None, the hook fired and the XMPP session
\* ended.
disconnect(s) ==
    LET s1 == remove_libvirt_handler(s)
        s2 == IF s1.libvirt_connection
              THEN [driver_call(s1, "close") EXCEPT !.libvirt_connection = FALSE]
              ELSE s1
    IN Logged([perform_hooks(s2, "HOOK_XMPP_DISCONNECT") EXCEPT !.authenticated = FALSE],
              "xmpp", "disconnect", "")

Disconnect ==
    /\ authenticated
    /\ Commit(disconnect(State))

LockTimerFires ==
    \E current \in BOOLEAN :
        /\ IF current THEN lock_timer = "armed" ELSE stale_timers > 0
        /\ Commit(timer_fires(State, current))

MigrateStep2 ==
    /\ migration = "step2"
    /\ \E has_uri \in BOOLEAN :
         Commit(migrate_step2(State, has_uri))

MigrateStep3 ==
    /\ migration = "step3"
    /\ \E err \in ErrorChoices :
         Commit(migrate_step3(State, err))

Next ==
    \/ Authenticated
    \/ ControlRequest
    \/ DefinitionRequest
    \/ DomainEvent
    \/ DriverChange
    \/ LockTimerFires
    \/ Disconnect
    \/ MigrateStep2
    \/ MigrateStep3

Spec == Init /\ [][Next]_vars

\* The polling of setMemory.  The timers a step started, for the call
\* they poll for.
TimersStarted(log, call) ==
    {[call |-> call, requestedMemory |-> log[i][3].requestedMemory,
      retry |-> log[i][3].retry] : i \in Entries(log, "timer")}

\* A memory request; a successful one starts the polling of a new call.
MemoryRequest ==
    /\ authenticated
    /\ \E q \in {x \in ControlRequests : x.action = "memory"} :
         /\ CommitFields(process_iq_archipel_control(State, q))
         /\ memory_timers' = memory_timers \cup
                TimersStarted(process_iq_archipel_control(State, q).log,
                              Len(memory_polls) + 1)
         /\ memory_polls' =
                IF Entries(process_iq_archipel_control(State, q).log, "timer") # {}
                THEN Append(memory_polls, [reads |-> 0, pushes |-> 0, errors |-> 0])
                ELSE memory_polls
         /\ Len(memory_polls') <= MaxMemoryCalls
    /\ UNCHANGED <<drv_memory, shutdown_pc>>

\* A pending timer expires and its thread runs memoryTimer.
MemoryTimerFires ==
    \E t \in memory_timers :
        LET r == memoryTimer(State, t.requestedMemory, t.retry, drv_memory)
        IN /\ CommitFields(r)
           /\ memory_timers' = (memory_timers \ {t}) \cup TimersStarted(r.log, t.call)
           /\ memory_polls' =
                [memory_polls EXCEPT ![t.call] =
                    [reads |-> @.reads + Cardinality(Entries(r.log, "driver")),
                     pushes |-> @.pushes + Cardinality(Entries(r.log, "push")),
                     errors |-> @.errors + Cardinality(Entries(r.log, "error"))]]
           /\ UNCHANGED <<drv_memory, shutdown_pc>>

\* The balloon driver of the guest moves the domain's memory.
MemoryChange ==
    /\ drv_defined
    /\ \E m \in MemoryValues \ {drv_memory} : drv_memory' = m
    /\ CommitFields(State)
    /\ UNCHANGED <<memory_timers, memory_polls, shutdown_pc>>

\* An undefine request, the one request that takes the domain away from a
\* pending poll.
UndefineRequest ==
    /\ authenticated
    /\ \E q \in DefinitionRequests :
         /\ q.action = "undefine"
         /\ Commit(process_iq_archipel_definition(State, q))

NextMemory ==
    \/ Authenticated
    \/ MemoryRequest
    \/ MemoryTimerFires
    \/ MemoryChange
    \/ UndefineRequest
    \/ DomainEvent
    \/ DriverChange

SpecMemory == Init /\ [][NextMemory]_vars

\* The agent process ends and a new one is constructed on the same folder:
\* __init__ resets every field, the database file and the driver stay.
restart(s) ==
    [s EXCEPT !.authenticated = FALSE, !.libvirt_connection = TRUE,
              !.domain = FALSE, !.definition = <<>>,
              !.libvirt_status = VIR_DOMAIN_SHUTDOWN,
              !.locked = FALSE, !.lock_timer = "none", !.stale_timers = 0,
              !.is_migrating = FALSE, !.callback_id = FALSE,
              !.registrations = 0, !.libvirt_run = "absent",
              !.xmppstatusshow = "unset", !.xmppstatus = "unset",
              !.migration = "idle", !.events = <<>>,
              !.triggers = {}, !.watchers = {}]

\* (a process that ends before its session started has changed nothing)
Restart ==
    /\ authenticated
    /\ Commit(restart(State))

\* The calls a module makes on the trigger and watcher tables once the
\* session has created them.
AddTrigger ==
    /\ authenticated
    /\ \E name \in {"t1", "t2"} : Commit(add_trigger(State, name))

RemoveTrigger ==
    /\ authenticated
    /\ \E name \in {"t1", "t2"} : Commit(remove_trigger(State, name))

AddWatcher ==
    /\ authenticated
    /\ Len(trigger_database.watchers) < MaxRows
    /\ \E name \in {"w1", "w2"}, triggername \in {"t1", "t2"},
          state \in {ARCHIPEL_WATCHER_STATE_OFF, ARCHIPEL_WATCHER_STATE_ON} :
         Commit(add_watcher(State, name, triggername, "create", "shutdown", state))

RemoveWatcher ==
    /\ authenticated
    /\ \E name \in {"w1", "w2"}, force \in BOOLEAN :
         Commit(remove_watcher(State, name, force))

NextTriggers ==
    \/ Authenticated
    \/ AddTrigger
    \/ RemoveTrigger
    \/ AddWatcher
    \/ RemoveWatcher
    \/ Restart

SpecTriggers == Init /\ [][NextTriggers]_vars

\* ----------------------------------------------------------------------
\* The shutdown handler and the driver's thread
\* ----------------------------------------------------------------------
\* On a driver that emits lifecycle events, on_domain_event runs in the
\* driver's thread, and nothing but the order of the statements separates
\* it from the thread that runs iq_shutdown: the handler is followed
\* statement by statement, and the stopped event may be handled between any
\* two of them.

\* iq_shutdown up to the driver call: the router's tests, the test of
\* self.locked, then lock() and self.domain.shutdown(), which succeeds.
ShutdownCalls ==
    /\ shutdown_pc = "idle"
    /\ authenticated /\ libvirt_connection /\ ~is_migrating /\ ~locked /\ domain
    /\ is_hypervisor(State, {ARCHIPEL_HYPERVISOR_TYPE_QEMU, ARCHIPEL_HYPERVISOR_TYPE_XEN})
    /\ driver_error(State, "shutdown", 0) = 0
    /\ CommitFields(driver_call(lock(Handler(State, "iq_shutdown")), "shutdown"))
    /\ shutdown_pc' = "called"
    /\ UNCHANGED <<drv_memory, memory_timers, memory_polls>>

\* The test of line 585: self.info()["state"] is read.
ShutdownReadsInfo ==
    /\ shutdown_pc = "called"
    /\ CommitFields(driver_call(State, "info"))
    /\ shutdown_pc' = IF info(State)[1] = "ok"
                         /\ info(State)[2] \in {VIR_DOMAIN_RUNNING, VIR_DOMAIN_BLOCKED}
                      THEN "publish" ELSE "returned"
    /\ UNCHANGED <<drv_memory, memory_timers, memory_polls>>

\* Line 586, then the return: the driver emits, so line 587 calls nothing.
ShutdownPublishes ==
    /\ shutdown_pc = "publish"
    /\ CommitFields(change_presence(State, xmppstatus, ARCHIPEL_XMPP_SHOW_SHUTDOWNING))
    /\ shutdown_pc' = "returned"
    /\ UNCHANGED <<drv_memory, memory_timers, memory_polls>>

\* The guest answers the shutdown request: the domain stops and the driver
\* emits the stopped event.
GuestStops ==
    /\ shutdown_pc # "idle"
    /\ drv_state \in ActiveStates
    /\ CommitFields(driver_change(State, <<VIR_DOMAIN_EVENT_STOPPED,
                                           VIR_DOMAIN_EVENT_STOPPED_SHUTDOWN,
                                           ActiveStates, VIR_DOMAIN_SHUTOFF>>))
    /\ UNCHANGED <<drv_memory, memory_timers, memory_polls, shutdown_pc>>

NextShutdown ==
    \/ Authenticated
    \/ ShutdownCalls
    \/ ShutdownReadsInfo
    \/ ShutdownPublishes
    \/ GuestStops
    \/ DomainEvent

SpecShutdown == Init /\ [][NextShutdown]_vars

\* Session start of a VM whose folder holds a trigger database written by
\* an earlier run.
TriggerNames == {"libvirt_run", "t1"}
WatcherNames == {"w1", "w2"}
WatcherRows ==
    [name : WatcherNames, triggername : {"libvirt_run"},
     triggeronaction : ActionNames,
     triggeroffaction : {"shutdown", "no_such_method"},
     state : {ARCHIPEL_WATCHER_STATE_OFF, ARCHIPEL_WATCHER_STATE_ON}]

InitStore ==
    /\ InitAgent
    /\ trigger_database \in [triggers : SeqsUpTo(TriggerNames, MaxRows),
                             watchers : SeqsUpTo(WatcherRows, MaxRows)]

NextStore == Authenticated

SpecStore == InitStore /\ [][NextStore]_vars

\* ----------------------------------------------------------------------
\* Properties
\* ----------------------------------------------------------------------
\* The handlers that test self.locked before they act.
LockGatedActions ==
    {"create", "shutdown", "destroy", "reboot", "suspend", "resume"}
\* The actions that change the domain, per namespace.
MutatingControlActions == LockGatedActions \cup {"setvcpus", "migrate"}
MutatingDefinitionActions == {"define", "undefine"}

NoDriverCall(log) == Entries(log, "driver") = {}

Permitted(S) == {q \in S : q.permitted}
GatedRequests == {q \in Permitted(ControlRequests) : q.action \in LockGatedActions}

\* C1, as the specification states it: while an accepted mutating request
\* holds the lock (and the VM is not migrating), every further mutating
\* request, on either namespace, is answered with VM_LOCKED.
C1_MutatingRequestsNeverOverlap ==
    (authenticated /\ locked /\ ~is_migrating) =>
        /\ \A q \in Permitted(ControlRequests) :
             q.action \in MutatingControlActions =>
               process_iq_archipel_control(State, q).reply.code
                 = ARCHIPEL_ERROR_CODE_VM_LOCKED
        /\ \A q \in Permitted(DefinitionRequests) :
             q.action \in MutatingDefinitionActions =>
               process_iq_archipel_definition(State, q).reply.code
                 = ARCHIPEL_ERROR_CODE_VM_LOCKED

\* C2: while locked is true, a create, shutdown, destroy, reboot, suspend
\* or resume request that reaches its handler (the sender holds the
\* permission and the VM is not migrating) is answered with an error of code
\* VM_LOCKED (-1012); the handler calls no driver function and leaves
\* locked, the lock timer, the presence and the libvirt_run trigger as they
\* were.
C2_LockedRequestIsRejected ==
    (authenticated /\ locked /\ ~is_migrating) =>
        \A q \in GatedRequests :
            LET r == process_iq_archipel_control(State, q)
            IN /\ r.reply.type = "error"
               /\ r.reply.code = ARCHIPEL_ERROR_CODE_VM_LOCKED
               /\ r.reply.code = -1012
               /\ NoDriverCall(r.log)
               /\ r.locked = locked
               /\ r.lock_timer = lock_timer
               /\ r.stale_timers = stale_timers
               /\ r.xmppstatusshow = xmppstatusshow
               /\ r.xmppstatus = xmppstatus
               /\ r.libvirt_run = libvirt_run

\* C2's case: create was dispatched, its started event is not delivered
\* yet, and a shutdown request is answered with VM_LOCKED.
C2_Witness ==
    /\ authenticated /\ locked /\ ~is_migrating
    /\ events = <<<<VIR_DOMAIN_EVENT_STARTED, VIR_DOMAIN_EVENT_STARTED_BOOTED>>>>
    /\ process_iq_archipel_control(
         State, Request("shutdown", TRUE, <<>>, 0, 0)).reply.code
         = ARCHIPEL_ERROR_CODE_VM_LOCKED

\* The lifecycle events and details a callback may be handed.
LifecycleEvents == VIR_DOMAIN_EVENT_DEFINED .. VIR_DOMAIN_EVENT_SHUTDOWN
LifecycleDetails == 0 .. VIR_DOMAIN_EVENT_STOPPED_MIGRATED

\* C3: a lifecycle event handed to on_domain_event while is_migrating is
\* true leaves the presence, the libvirt_run trigger, the domain handle and
\* the cached libvirt status as they were, pushes no change notification
\* and fires no hook.
C3_EventsIgnoredWhileMigrating ==
    is_migrating =>
        \A event \in LifecycleEvents, detail \in LifecycleDetails :
            LET r == on_domain_event(State, event, detail)
            IN /\ r.xmppstatusshow = xmppstatusshow
               /\ r.xmppstatus = xmppstatus
               /\ r.libvirt_run = libvirt_run
               /\ r.domain = domain
               /\ r.libvirt_status = libvirt_status
               /\ Entries(r.log, "push") = {}
               /\ Entries(r.log, "hook") = {}
               /\ Entries(r.log, "presence") = {}

\* C3's case: the VM is migrating, the driver has emitted an event for the
\* registered callback, and delivering it does nothing but consume it.
C3_Witness ==
    /\ is_migrating /\ registrations > 0 /\ events # <<>>
    /\ deliver(State).log = <<>>
    /\ deliver(State).events = <<>>

\* C4, as the specification states it: while is_migrating is true every
\* control request whose action is not info, xmldesc or networkinfo, and
\* every definition request whose action is not capabilities, is answered
\* with VM_MIGRATING (-43) and no handler is entered; the four read-only
\* actions are dispatched to their handlers.
C4_MigrationGate ==
    (authenticated /\ is_migrating) =>
        /\ \A q \in Permitted(ControlRequests) :
             LET r == process_iq_archipel_control(State, q)
             IN IF q.action \in {"info", "xmldesc", "networkinfo"}
                THEN Entries(r.log, "handler") # {}
                ELSE /\ r.reply.code = ARCHIPEL_ERROR_CODE_VM_MIGRATING
                     /\ Entries(r.log, "handler") = {}
        /\ \A q \in Permitted(DefinitionRequests) :
             LET r == process_iq_archipel_definition(State, q)
             IN IF q.action = "capabilities"
                THEN Entries(r.log, "handler") # {}
                ELSE /\ r.reply.code = ARCHIPEL_ERROR_CODE_VM_MIGRATING
                     /\ Entries(r.log, "handler") = {}

\* A finished handler's state as the next request finds it.
Next_State(r) == [r EXCEPT !.log = <<>>, !.reply = NoReply]

\* C5: when an accepted create, shutdown, destroy, reboot, suspend or
\* resume request fails in its handler (a driver error, or another
\* exception such as a None domain handle), locked is false when the error
\* reply is returned, and the next such request is not answered VM_LOCKED.
C5_FailureReleasesLock ==
    (authenticated /\ ~locked /\ ~is_migrating) =>
        \A q \in GatedRequests :
            LET r == process_iq_archipel_control(State, q)
            IN r.reply.type = "error" =>
                 /\ Entries(r.log, "lock") # {}
                 /\ ~r.locked
                 /\ r.lock_timer = "none"
                 /\ \A q2 \in GatedRequests :
                      process_iq_archipel_control(Next_State(r), q2).reply.code
                        # ARCHIPEL_ERROR_CODE_VM_LOCKED

\* C5's case: both failures happen, a driver error on a connected domain
\* and the exception of a None domain handle, and leave the lock released.
C5_Witness ==
    /\ authenticated /\ ~locked /\ ~is_migrating /\ domain /\ drv_defined
    /\ LET r == process_iq_archipel_control(
                  State, Request("reboot", TRUE, <<>>, VIR_ERR_OPERATION_INVALID, 0))
       IN /\ r.reply.code = VIR_ERR_OPERATION_INVALID
          /\ Entries(r.log, "unlock") # {}
          /\ ~r.locked

\* A started Timer runs to its end unless it is cancelled: a pending safety
\* timer eventually fires.
SpecFair == Spec /\ WF_vars(LockTimerFires)

\* No create, shutdown, destroy, reboot, suspend or resume request is
\* answered VM_LOCKED.
GatedRequestsAccepted ==
    \A q \in GatedRequests :
        process_iq_archipel_control(State, q).reply.code
          # ARCHIPEL_ERROR_CODE_VM_LOCKED

\* C6: once the lock is taken it is eventually released, by the safety
\* timer if no lifecycle event and no failure releases it first, and the
\* mutating requests that arrive then are not answered VM_LOCKED: the agent
\* never stays locked forever.
C6_LockEventuallyReleased == locked ~> (~locked /\ GatedRequestsAccepted)

\* C6's case: a reboot was accepted (it produces no event), nothing is
\* left to release the lock but the pending safety timer, and its expiry
\* releases it.
C6_Witness ==
    /\ locked /\ lock_timer = "armed" /\ events = <<>> /\ ~is_migrating
    /\ drv_state \in ActiveStates
    /\ ~timer_fires(State, TRUE).locked

\* C7, as the specification states it: the presence published when the
\* domain is connected is the row of the table for the domain's status:
\* running and blocked give available/"Running"/on, paused away/"Paused"/
\* off, shut-off extended-away/"Shutted off"/off, shutdown in progress
\* available/"Shutdowning..."/off, crashed extended-away/"Crashed"/off, the
\* no-domain error extended-away/"Not defined"/off; and every status value,
\* no-state included, publishes a presence.
C7_PresenceTable ==
    (~authenticated /\ drv_defined) =>
        /\ LET r == xmpp_authenticated(State, 0)
               row == <<r.xmppstatusshow, r.xmppstatus, r.libvirt_run>>
           IN /\ Entries(r.log, "presence") # {}
              /\ drv_state \in {VIR_DOMAIN_RUNNING, VIR_DOMAIN_BLOCKED}
                   => row = <<"", "Running", "on">>
              /\ drv_state = VIR_DOMAIN_PAUSED => row = <<"away", "Paused", "off">>
              /\ drv_state = VIR_DOMAIN_SHUTOFF => row = <<"xa", "Shutted off", "off">>
              /\ drv_state = VIR_DOMAIN_SHUTDOWN => row = <<"", "Shutdowning...", "off">>
              /\ drv_state = VIR_DOMAIN_CRASHED => row = <<"xa", "Crashed", "off">>
        /\ LET r == xmpp_authenticated(State, VIR_ERR_NO_DOMAIN)
           IN <<r.xmppstatusshow, r.xmppstatus, r.libvirt_run>>
                = <<"xa", "Not defined", "off">>

\* C8, as the specification states it, for the resumed event it names: once
\* a resumed event is processed (the VM is not migrating, the agent holds
\* the domain) the libvirt_run trigger is on if and only if the libvirt
\* status observed last is running or blocked.
C8_TriggerOnAfterResumed ==
    (/\ registrations > 0 /\ domain /\ drv_defined /\ ~is_migrating
     /\ events # <<>>
     /\ Head(events) = <<VIR_DOMAIN_EVENT_RESUMED, VIR_DOMAIN_EVENT_RESUMED_UNPAUSED>>) =>
        LET r == deliver(State)
        IN (r.libvirt_run = "on")
             <=> (r.libvirt_status \in {VIR_DOMAIN_RUNNING, VIR_DOMAIN_BLOCKED})

\* C9, as the specification states it: after a define request whose uuid is
\* the agent's and whose driver call succeeds, the stored definition has
\* exactly one description element, with the text "<jid>::::<password>",
\* and a name element with the agent's name, whatever the request carried.
C9_DefinitionIsNormalised ==
    (authenticated /\ ~is_migrating) =>
        \A q \in Permitted(DefinitionRequests) :
            (q.action = "define" /\ q.arg[1].uuid = UUID) =>
                LET r == process_iq_archipel_definition(State, q)
                IN r.reply.type = "result" =>
                     /\ r.definition # <<>>
                     /\ r.definition[1].description = <<CRED>>
                     /\ \E i \in DOMAIN r.definition[1].name :
                          r.definition[1].name[i] = NAME

\* C10: a define request whose uuid is not the agent's (or that has no uuid
\* element) is answered with an error of code VM_DEFINE (-1007); defineXML
\* is not called, and the stored definition, the domain handle, the
\* presence and the lock are as they were.
C10_ForeignUuidIsRejected ==
    (authenticated /\ ~is_migrating) =>
        \A q \in Permitted(DefinitionRequests) :
            (q.action = "define" /\ q.arg[1].uuid # UUID) =>
                LET r == process_iq_archipel_definition(State, q)
                IN /\ r.reply.type = "error"
                   /\ r.reply.code = ARCHIPEL_ERROR_CODE_VM_DEFINE
                   /\ r.reply.code = -1007
                   /\ NoDriverCall(r.log)
                   /\ r.definition = definition
                   /\ r.drv_xml = drv_xml
                   /\ r.domain = domain
                   /\ r.xmppstatusshow = xmppstatusshow
                   /\ r.xmppstatus = xmppstatus
                   /\ r.locked = locked
                   /\ r.lock_timer = lock_timer

\* C10's case: the agent holds a definition, and a define request for
\* another uuid is refused and leaves it in place.
C10_Witness ==
    /\ authenticated /\ ~is_migrating /\ domain /\ definition = <<DefinedDoc>>
    /\ LET q == Request("define", TRUE,
                        <<[uuid |-> OTHER_UUID, description |-> <<"user text">>,
                           name |-> <<"other name">>]>>, 0, 0)
           r == process_iq_archipel_definition(State, q)
       IN /\ q \in DefinitionRequests
          /\ r.reply.code = ARCHIPEL_ERROR_CODE_VM_DEFINE
          /\ r.definition = definition

\* The replies to an xmldesc request in the present state: the IQ's and the
\* chat command's, for every error the driver may raise.
XmldescReplies ==
    {process_iq_archipel_control(State, q).reply :
        q \in {x \in Permitted(ControlRequests) : x.action = "xmldesc"}}
    \cup {message_xmldesc(State, e).reply : e \in {0, VIR_ERR_OPERATION_INVALID}}

\* C11: a document returned by an xmldesc request, IQ or chat, has no
\* description child, and the credential "<jid>::::<password>" written at
\* define time is the text of none of its elements, whatever define
\* requests came before.
C11_XmldescHidesCredential ==
    authenticated =>
        \A reply \in XmldescReplies :
            reply.payload # <<>> =>
                /\ reply.payload[2].description = <<>>
                /\ \A i \in DOMAIN reply.payload[2].name :
                     reply.payload[2].name[i] # CRED
                /\ reply.payload[2].uuid # CRED

\* C11's case: a define request with two description children was served,
\* the driver's XML holds the credential, and both routes return a
\* document.
C11_Witness ==
    /\ authenticated /\ domain /\ drv_defined /\ ~is_migrating
    /\ definition # <<>> /\ Len(definition[1].description) = 2
    /\ drv_xml[1].description = <<CRED>>
    /\ \A reply \in XmldescReplies :
         reply.type \in {"result", "message"} => reply.payload[2].description = <<>>
    /\ \E reply \in XmldescReplies : reply.type = "result"
    /\ \E reply \in XmldescReplies : reply.type = "message"

\* The agent as an undefine that was served leaves it once the undefined
\* event is processed: the states that follow the delivery of the driver's
\* event, and those that follow an undefine request on a driver that
\* delivers none (the method processes the event itself).
AfterUndefine ==
    (IF /\ registrations > 0 /\ ~is_migrating /\ events # <<>>
        /\ Head(events)[1] = VIR_DOMAIN_EVENT_UNDEFINED
     THEN {deliver(State)} ELSE {})
    \cup {process_iq_archipel_definition(State, q) :
            q \in {x \in Permitted(DefinitionRequests) :
                     /\ x.action = "undefine" /\ x.err = 0
                     /\ authenticated /\ ~is_migrating /\ domain
                     /\ definition # <<>>
                     /\ driver_error(State, "undefine", 0) = 0
                     /\ ~is_hypervisor(State, {ARCHIPEL_HYPERVISOR_TYPE_QEMU,
                                               ARCHIPEL_HYPERVISOR_TYPE_XEN})}}

\* C12, as the specification states it: after a define and an undefine
\* that both succeed, once the undefined event is processed, the presence
\* is extended-away/"Not defined", the domain handle is None and the stored
\* definition is cleared.
C12_UndefineClearsAgent ==
    \A r \in AfterUndefine :
        /\ r.xmppstatusshow = "xa"
        /\ r.xmppstatus = ARCHIPEL_XMPP_SHOW_NOT_DEFINED
        /\ ~r.domain
        /\ r.definition = <<>>

UndefineRequests ==
    {q \in Permitted(DefinitionRequests) : q.action = "undefine"}

\* C13: an undefine request received while the domain handle is None is
\* answered with a result, calls no driver function and leaves every field
\* of the agent (presence, lock, definition, trigger among them) as it was;
\* a second undefine request finds the same state and leaves it the same.
C13_UndefineOnNoneIsNoOp ==
    (authenticated /\ ~domain /\ ~is_migrating) =>
        \A q \in UndefineRequests :
            LET r == process_iq_archipel_definition(State, q)
            IN /\ r.reply.type = "result"
               /\ NoDriverCall(r.log)
               /\ Entries(r.log, "presence") = {}
               /\ Entries(r.log, "trigger") = {}
               /\ Next_State(r) = State
               /\ \A q2 \in UndefineRequests :
                    LET r2 == process_iq_archipel_definition(Next_State(r), q2)
                    IN r2.reply.type = "result" /\ Next_State(r2) = State

\* C13's case: the domain was undefined and the event processed (the
\* definition is still stored, the handle is None), and an undefine
\* request is answered with a result.
C13_Witness ==
    /\ authenticated /\ ~domain /\ ~is_migrating /\ ~drv_defined
    /\ definition # <<>>
    /\ xmppstatus = ARCHIPEL_XMPP_SHOW_NOT_DEFINED
    /\ process_iq_archipel_definition(
         State, Request("undefine", TRUE, <<>>, 0, 0)).reply.type = "result"

\* The entries of a handler's log of one kind, without the kind.
Logs(log, what) == {<<log[i][2], log[i][3]>> : i \in Entries(log, what)}

\* C14, as the specification states it: a create request accepted on a
\* driver that delivers lifecycle events (QEMU, Xen) leaves the lock held
\* and replies with the domain id the driver returns; no request served
\* before the started event is processed releases the lock; processing the
\* started event publishes available/"Running", sets libvirt_run on, pushes
\* "created" on "virtualmachine:control", fires HOOK_VM_CREATE and releases
\* the lock.
C14_CreateThenStarted ==
    (/\ authenticated /\ ~locked /\ ~is_migrating /\ domain
     /\ registrations > 0 /\ events = <<>>
     /\ is_hypervisor(State, {ARCHIPEL_HYPERVISOR_TYPE_QEMU,
                              ARCHIPEL_HYPERVISOR_TYPE_XEN})) =>
        LET r == process_iq_archipel_control(State, Request("create", TRUE, <<>>, 0, 0))
            s == Next_State(r)
            e == deliver(s)
        IN r.reply.type = "result" =>
             /\ r.locked
             /\ r.lock_timer = "armed"
             /\ r.reply.payload = <<"domain", DomId>>
             /\ r.events = <<<<VIR_DOMAIN_EVENT_STARTED, VIR_DOMAIN_EVENT_STARTED_BOOTED>>>>
             /\ \A q \in Permitted(ControlRequests) :
                  process_iq_archipel_control(s, q).locked
             /\ \A q \in Permitted(DefinitionRequests) :
                  process_iq_archipel_definition(s, q).locked
             /\ e.xmppstatusshow = ""
             /\ e.xmppstatus = ARCHIPEL_XMPP_SHOW_RUNNING
             /\ e.libvirt_run = "on"
             /\ Logs(e.log, "push") = {<<"virtualmachine:control", "created">>}
             /\ Logs(e.log, "hook") = {<<"HOOK_VM_CREATE", "">>}
             /\ ~e.locked
             /\ e.lock_timer = "none"

\* The preconditions of a migration to destination_jid, in the present
\* state.
CanMigrate(destination_jid) ==
    /\ is_hypervisor(State, {ARCHIPEL_HYPERVISOR_TYPE_QEMU})
    /\ ~is_migrating
    /\ definition # <<>>
    /\ domain /\ drv_defined
    /\ drv_state \in {VIR_DOMAIN_RUNNING, VIR_DOMAIN_BLOCKED}
    /\ destination_jid # HYPERVISOR_JID

MigrationFails(err) ==
    ~domain \/ driver_error(State, "migrateToURI", err) # 0

\* C16: when migrateToURI fails in the migration thread, is_migrating
\* becomes false, the presence status becomes "Can't migrate." with the
\* show as it was, and a "migration" message is shouted; after that no
\* request is answered VM_MIGRATING and on_domain_event processes every
\* lifecycle event to its end.
C16_MigrationFailureClearsFlag ==
    (migration = "step3") =>
        \A err \in ErrorChoices :
            MigrationFails(err) =>
                LET r == migrate_step3(State, err)
                    s == Next_State(r)
                IN /\ is_migrating /\ ~r.is_migrating
                   /\ r.xmppstatus = "Can't migrate."
                   /\ r.xmppstatusshow = xmppstatusshow
                   /\ Logs(r.log, "presence") = {<<xmppstatusshow, "Can't migrate.">>}
                   /\ Logs(r.log, "shout") = {<<"migration", "">>}
                   /\ \A q \in Permitted(ControlRequests) :
                        process_iq_archipel_control(s, q).reply.code
                          # ARCHIPEL_ERROR_CODE_VM_MIGRATING
                   /\ \A q \in Permitted(DefinitionRequests) :
                        process_iq_archipel_definition(s, q).reply.code
                          # ARCHIPEL_ERROR_CODE_VM_MIGRATING
                   /\ \A event \in LifecycleEvents, detail \in LifecycleDetails :
                        Entries(on_domain_event(s, event, detail).log, "unlock") # {}

\* C16's case: the migration thread runs on a running domain, the driver
\* refuses migrateToURI, and a shutdown request that follows is served.
C16_Witness ==
    /\ migration = "step3" /\ is_migrating /\ domain
    /\ drv_state = VIR_DOMAIN_RUNNING
    /\ LET r == migrate_step3(State, VIR_ERR_OPERATION_INVALID)
       IN /\ ~r.is_migrating
          /\ r.xmppstatus = "Can't migrate."
          /\ process_iq_archipel_control(
               Next_State(r), Request("shutdown", TRUE, <<>>, 0, 0)).reply.type
               = "result"

\* C17: once an accepted migrate request has set is_migrating, a step
\* clears it only when the migration fails (no uri in the answer of the
\* remote hypervisor, or migrateToURI raising): a successful migrateToURI
\* leaves it true and the agent makes no undefine call, after it the
\* flag is true in every later state, and while the flag is true (and the
\* agent has its hypervisor connection) every permitted request that
\* changes the VM is answered VM_MIGRATING without a driver call.
C17_MigratingUntilFailure ==
    /\ [][is_migrating =>
            \/ is_migrating'
            \/ migration \in {"step2", "step3"} /\ migration' = "idle"]_vars
    /\ [][migration = "done" => (migration' = "done" /\ is_migrating')]_vars
    /\ [](migration = "step3" =>
            \A err \in ErrorChoices :
                ~MigrationFails(err) =>
                    LET r == migrate_step3(State, err)
                    IN /\ r.is_migrating
                       /\ r.migration = "done"
                       /\ \A e \in Logs(r.log, "driver") : e[1] # "undefine")
    /\ []((is_migrating /\ libvirt_connection) =>
            /\ \A q \in Permitted(ControlRequests) :
                 q.action \in ControlActions \ {"info", "xmldesc", "networkinfo"} =>
                     LET r == process_iq_archipel_control(State, q)
                     IN /\ r.reply.code = ARCHIPEL_ERROR_CODE_VM_MIGRATING
                        /\ NoDriverCall(r.log)
            /\ \A q \in Permitted(DefinitionRequests) :
                 q.action \in MutatingDefinitionActions =>
                     LET r == process_iq_archipel_definition(State, q)
                     IN /\ r.reply.code = ARCHIPEL_ERROR_CODE_VM_MIGRATING
                        /\ NoDriverCall(r.log))

\* C17's case: migrateToURI has succeeded, the domain is still defined on
\* this host and the flag is still set.
C17_Witness ==
    /\ migration = "done" /\ is_migrating /\ drv_defined
    /\ process_iq_archipel_definition(
         State, Request("undefine", TRUE, <<>>, 0, 0)).reply.code
         = ARCHIPEL_ERROR_CODE_VM_MIGRATING

\* the watcher rows whose two action names getattr finds on the agent
Resolves(row) ==
    row.triggeronaction \in AgentMethods /\ row.triggeroffaction \in AgentMethods

\* C18: after the methods of the authenticated hook have run at session
\* start, every row of the triggers table has a trigger of its name in
\* self.triggers; every row of the watchers table whose two action names
\* resolve has a watcher of its name in self.watchers, and watch() was
\* called for it when its state column is on (the watcher held under a
\* name is watching when the last such row of that name is on); a row
\* whose action name does not resolve makes no watcher and the rows after
\* it are recovered all the same; and the libvirt_run trigger exists.
C18_StoreIsRecovered ==
    ~authenticated =>
        \A info_err \in ErrorChoices :
            LET r == xmpp_authenticated(State, info_err)
                trows == trigger_database.triggers
                wrows == trigger_database.watchers
                Last(name) == {i \in DOMAIN wrows :
                                 /\ wrows[i].name = name /\ Resolves(wrows[i])
                                 /\ \A j \in DOMAIN wrows :
                                      (j > i /\ wrows[j].name = name) => ~Resolves(wrows[j])}
            IN /\ r.authenticated
               /\ \A i \in DOMAIN trows : trows[i] \in r.triggers
               /\ \A i \in DOMAIN wrows :
                    IF Resolves(wrows[i])
                    THEN /\ \E w \in r.watchers : w.name = wrows[i].name
                         /\ wrows[i].state = ARCHIPEL_WATCHER_STATE_ON
                              => <<wrows[i].name, "">> \in Logs(r.log, "watch")
                    ELSE <<wrows[i].name, "">> \in Logs(r.log, "error")
               /\ \A w \in r.watchers :
                    /\ Last(w.name) # {}
                    /\ \A i \in Last(w.name) :
                         w.watching = (wrows[i].state = ARCHIPEL_WATCHER_STATE_ON)
               /\ Cardinality(Entries(r.log, "watch"))
                    = Cardinality({i \in DOMAIN wrows :
                                     /\ Resolves(wrows[i])
                                     /\ wrows[i].state = ARCHIPEL_WATCHER_STATE_ON})
               /\ "libvirt_run" \in r.triggers
               /\ r.libvirt_run # "absent"

\* C18's case: the session has started on a database whose first watcher
\* row names a method the agent has not and whose second row is on; the
\* second watcher is watching and the persisted trigger is in memory.
C18_Witness ==
    /\ authenticated
    /\ Len(trigger_database.watchers) = 2
    /\ ~Resolves(trigger_database.watchers[1])
    /\ Resolves(trigger_database.watchers[2])
    /\ trigger_database.watchers[2].state = ARCHIPEL_WATCHER_STATE_ON
    /\ trigger_database.triggers = <<"t1", "libvirt_run">>
    /\ watchers = {[name |-> trigger_database.watchers[2].name, watching |-> TRUE]}
    /\ triggers = {"t1", "libvirt_run"}

\* The action a chat command maps to: the name of the permission the
\* specification has it guarded by.
ActionOf(command) ==
    CASE command \in {"start", "create", "boot", "play", "run"} -> "create"
      [] command \in {"shutdown", "stop"} -> "shutdown"
      [] command \in {"destroy"} -> "destroy"
      [] command \in {"pause", "suspend"} -> "suspend"
      [] command \in {"resume", "unpause"} -> "resume"
      [] command \in {"info", "how are you", "and you"} -> "info"
      [] command \in {"desc", "xml"} -> "xmldesc"
      [] command \in {"net", "stat"} -> "networkinfo"

\* The chat messages: every command of the vocabulary, from a sender that
\* holds no permission or one permission.
ChatMessages ==
    [command : UNION {i.commands : i \in registrar_items},
     held : {{}} \cup {{ActionOf(c)} : c \in UNION {i.commands : i \in registrar_items}},
     err : {0, VIR_ERR_OPERATION_INVALID}]

\* A request of a subject without the permission is answered with the
\* permission error before anything else: no handler, no lock, no driver
\* call, no change of a field.
Denied(r) ==
    /\ r.reply.type = "error" /\ r.reply.code = PERMISSION_ERROR_CODE
    /\ r.log = <<>>
    /\ Next_State(r) = State

\* C19, as the specification states it: every IQ action of both namespaces
\* and every chat command that maps to create, shutdown, destroy, suspend,
\* resume, info, xmldesc or networkinfo is guarded by the permission of the
\* same name, checked before the migration guard, the lock guard and the
\* handler; a denied subject causes no driver call and no state change.
C19_PermissionGuardsEveryRoute ==
    authenticated =>
        /\ \A q \in ControlRequests :
             ~q.permitted => Denied(process_iq_archipel_control(State, q))
        /\ \A q \in DefinitionRequests :
             ~q.permitted => Denied(process_iq_archipel_definition(State, q))
        /\ \A m \in ChatMessages :
             ActionOf(m.command) \notin m.held => Denied(process_message(State, m))

\* The place of a step in the order the specification gives (0: a line of
\* the log that is none of the five steps).
StepRank(kind) ==
    CASE kind = "presence" -> 1
      [] kind = "push" -> 2
      [] kind = "hook" -> 3
      [] kind = "refresh" -> 4
      [] kind = "unlock" -> 5
      [] OTHER -> 0

\* C20: for every lifecycle event handed to on_domain_event while
\* is_migrating is false, whichever call of the branch raises or none, the
\* steps taken are in the order presence, change notification, hook,
\* refresh of the cached status, lock release, each at most once; a branch
\* that runs to its end takes the first three; the lock is released
\* exactly once, as the last step, for every event; and the refresh is
\* left out exactly for the defined and undefined events.
C20_EventStepsInOrder ==
    ~is_migrating =>
        \A event \in LifecycleEvents, detail \in LifecycleDetails,
           raises \in BranchSteps \cup {"none"} :
            LET r == on_domain_event_raising(State, event, detail, raises)
                log == r.log
                steps == {i \in DOMAIN log : StepRank(log[i][1]) > 0}
            IN /\ \A i, j \in steps :
                    i < j => StepRank(log[i][1]) < StepRank(log[j][1])
               /\ (raises = "none" /\ event_branch(event, detail) # <<>>) =>
                    /\ Entries(log, "presence") # {}
                    /\ Entries(log, "push") # {}
                    /\ Entries(log, "hook") # {}
               /\ Entries(log, "unlock") = {Len(log)}
               /\ ~r.locked
               /\ (Entries(log, "refresh") = {})
                    <=> (event \in {VIR_DOMAIN_EVENT_DEFINED, VIR_DOMAIN_EVENT_UNDEFINED})

\* C20's case: the lock is held, the driver's next event selects a branch,
\* the change notification of the branch raises, and the lock is released
\* all the same after the refresh.
C20_Witness ==
    /\ locked /\ ~is_migrating /\ registrations > 0 /\ events # <<>>
    /\ event_branch(Head(events)[1], Head(events)[2]) # <<>>
    /\ LET r == on_domain_event_raising(State, Head(events)[1], Head(events)[2], "push")
       IN /\ ~r.locked
          /\ Entries(r.log, "presence") # {}
          /\ Entries(r.log, "hook") = {}
          /\ Entries(r.log, "refresh") # {}

\* The lifecycle events whose detail says migration caused them.
MigrationCausedEvents ==
    { <<VIR_DOMAIN_EVENT_STARTED, VIR_DOMAIN_EVENT_STARTED_MIGRATED>>,
      <<VIR_DOMAIN_EVENT_SUSPENDED, VIR_DOMAIN_EVENT_SUSPENDED_MIGRATED>>,
      <<VIR_DOMAIN_EVENT_RESUMED, VIR_DOMAIN_EVENT_RESUMED_MIGRATED>>,
      <<VIR_DOMAIN_EVENT_STOPPED, VIR_DOMAIN_EVENT_STOPPED_MIGRATED>> }

\* C21, as the specification states it: a started, suspended, resumed or
\* stopped event whose detail says migration caused it selects no branch:
\* it leaves the presence and the libvirt_run trigger as they were, pushes
\* no change notification and fires no hook, also when is_migrating is
\* false.
C21_MigrationEventsSelectNoBranch ==
    (registrations > 0) =>
        \A e \in MigrationCausedEvents :
            LET r == on_domain_event(State, e[1], e[2])
            IN /\ r.xmppstatusshow = xmppstatusshow
               /\ r.xmppstatus = xmppstatus
               /\ r.libvirt_run = libvirt_run
               /\ Entries(r.log, "presence") = {}
               /\ Entries(r.log, "trigger") = {}
               /\ Entries(r.log, "push") = {}
               /\ Entries(r.log, "hook") = {}

\* C22, as the specification states it: an undefined event processed
\* while is_migrating is false publishes presence xa / "Not defined",
\* pushes "undefined" on virtualmachine:definition and fires
\* HOOK_VM_UNDEFINE, and after them leaves the domain handle None, the
\* stored definition cleared and the lifecycle callback deregistered.
C22_UndefinedEventDropsDomain ==
    (~is_migrating /\ registrations > 0) =>
        \A detail \in LifecycleDetails :
            LET r == on_domain_event(State, VIR_DOMAIN_EVENT_UNDEFINED, detail)
                dereg == {i \in Entries(r.log, "driver") :
                            r.log[i][2] = "domainEventDeregisterAny"}
            IN /\ Logs(r.log, "presence") = {<<"xa", ARCHIPEL_XMPP_SHOW_NOT_DEFINED>>}
               /\ Logs(r.log, "push") = {<<"virtualmachine:definition", "undefined">>}
               /\ Logs(r.log, "hook") = {<<"HOOK_VM_UNDEFINE", "">>}
               /\ \A i \in dereg, j \in Entries(r.log, "hook") : j < i
               /\ callback_id => dereg # {}
               /\ ~r.callback_id
               /\ ~r.domain
               /\ r.definition = <<>>

\* C23: in migrate_step2, when the reply of the target hypervisor holds no
\* uri, is_migrating is cleared, no thread is started and no driver call is
\* made, and no permitted request is answered VM_MIGRATING afterwards; when
\* it holds one, the presence status becomes "Migrating..." with the show
\* as it was, is_migrating stays set and the thread of migrate_step3 is
\* started.
C23_MigrateStep2 ==
    (migration = "step2") =>
        /\ is_migrating
        /\ LET r == migrate_step2(State, FALSE)
               s == Next_State(r)
           IN /\ ~r.is_migrating
              /\ r.migration = "idle"
              /\ Entries(r.log, "thread") = {}
              /\ NoDriverCall(r.log)
              /\ \A q \in Permitted(ControlRequests) :
                   process_iq_archipel_control(s, q).reply.code
                     # ARCHIPEL_ERROR_CODE_VM_MIGRATING
              /\ \A q \in Permitted(DefinitionRequests) :
                   process_iq_archipel_definition(s, q).reply.code
                     # ARCHIPEL_ERROR_CODE_VM_MIGRATING
        /\ LET r == migrate_step2(State, TRUE)
           IN /\ r.is_migrating
              /\ r.xmppstatus = "Migrating..."
              /\ r.xmppstatusshow = xmppstatusshow
              /\ Logs(r.log, "presence") = {<<xmppstatusshow, "Migrating...">>}
              /\ Logs(r.log, "thread") = {<<"migrate_step3", "">>}
              /\ r.migration = "step3"

\* C23's case: the reply held no uri: the protocol is over, the flag is
\* cleared and a further migrate request passes the migration guard.
C23_Witness ==
    /\ migration = "idle" /\ ~is_migrating /\ authenticated
    /\ xmppstatus = "Migrating..."
    /\ process_iq_archipel_control(
         State, Request("migrate", TRUE, <<PEER_JID>>, 0, 0)).reply.code
         # ARCHIPEL_ERROR_CODE_VM_MIGRATING

\* C24, as the specification states it: every setvcpus request returns
\* with the lock released: with a value of at most maxVcpus the driver's
\* setVcpus is called; with a larger value, or when the driver call fails,
\* the request is answered with an error and setVcpus is not called to
\* effect; in both cases locked is false when the reply is returned.
C24_SetvcpusReleasesLock ==
    (authenticated /\ ~is_migrating) =>
        \A q \in Permitted(ControlRequests) :
            q.action = "setvcpus" =>
                LET r == process_iq_archipel_control(State, q)
                    called == <<"setVcpus", "">> \in Logs(r.log, "driver")
                IN /\ IF r.reply.type = "result"
                      THEN called /\ q.arg[1] <= MaxVcpus
                      ELSE /\ r.reply.type = "error"
                           /\ called => q.err # 0
                           /\ (q.arg[1] > MaxVcpus) => ~called
                   /\ (q.arg[1] > MaxVcpus) => r.reply.type = "error"
                   /\ ~r.locked

\* The error code the specification gives each action.
ActionCode(action) ==
    CASE action = "create" -> ARCHIPEL_ERROR_CODE_VM_CREATE
      [] action = "suspend" -> ARCHIPEL_ERROR_CODE_VM_SUSPEND
      [] action = "resume" -> ARCHIPEL_ERROR_CODE_VM_RESUME
      [] action = "destroy" -> ARCHIPEL_ERROR_CODE_VM_DESTROY
      [] action = "shutdown" -> ARCHIPEL_ERROR_CODE_VM_SHUTDOWN
      [] action = "reboot" -> ARCHIPEL_ERROR_CODE_VM_REBOOT
      [] action = "define" -> ARCHIPEL_ERROR_CODE_VM_DEFINE
      [] action = "undefine" -> ARCHIPEL_ERROR_CODE_VM_UNDEFINE
      [] action = "info" -> ARCHIPEL_ERROR_CODE_VM_INFO
      [] action = "xmldesc" -> ARCHIPEL_ERROR_CODE_VM_XMLDESC
      [] action = "migrate" -> ARCHIPEL_ERROR_CODE_VM_MIGRATE
      [] action = "autostart" -> ARCHIPEL_ERROR_CODE_VM_AUTOSTART
      [] action = "memory" -> ARCHIPEL_ERROR_CODE_VM_MEMORY
      [] action = "networkinfo" -> ARCHIPEL_ERROR_CODE_VM_NETWORKINFO
      [] action = "capabilities" -> ARCHIPEL_ERROR_CODE_VM_HYPERVISOR_CAPABILITIES
      [] action = "free" -> ARCHIPEL_ERROR_CODE_VM_FREE

\* The reply to a handler failure is typed: the driver's code under the
\* generic libvirt namespace, or the code of the action.
TypedError(reply, action) ==
    IF reply.code \in DriverErrorCodes
    THEN reply.ns = ARCHIPEL_NS_LIBVIRT_GENERIC_ERROR
    ELSE reply.code = ActionCode(action) /\ reply.ns = ""

FailedInHandler(reply) ==
    /\ reply.type = "error"
    /\ reply.code \notin {ARCHIPEL_ERROR_CODE_VM_LOCKED, ARCHIPEL_ERROR_CODE_VM_MIGRATING}

\* C25, as the specification states it: for every action with a code of
\* its own, a failure in the handler is answered with one typed error: a
\* driver error with the driver's code under the generic libvirt
\* namespace, any other error with the code of the action.
C25_FailuresAreTyped ==
    authenticated =>
        /\ \A q \in Permitted(ControlRequests) :
             q.action \in (ControlActions \ {"setvcpus"}) =>
                 LET r == process_iq_archipel_control(State, q)
                 IN FailedInHandler(r.reply) => TypedError(r.reply, q.action)
        /\ \A q \in Permitted(DefinitionRequests) :
             q.action \in DefinitionActions =>
                 LET r == process_iq_archipel_definition(State, q)
                 IN FailedInHandler(r.reply) => TypedError(r.reply, q.action)

\* A request that is ignored: no reply, nothing done, no field changed.
Ignored(r) ==
    /\ r.reply = NoReply
    /\ r.log = <<>>
    /\ Next_State(r) = State

\* C26, as the specification states it: a permitted request of either
\* namespace whose action is none of the known ones is ignored in every
\* state of the agent, migrating and locked included.
C26_UnknownActionIsIgnored ==
    (authenticated) =>
        /\ \A q \in Permitted(ControlRequests) :
             q.action \in UnknownControlActions =>
                 Ignored(process_iq_archipel_control(State, q))
        /\ \A q \in Permitted(DefinitionRequests) :
             q.action \in UnknownDefinitionActions =>
                 Ignored(process_iq_archipel_definition(State, q))

\* A request that is aborted silently: no reply, no handler, no driver
\* call.
Aborted(r) ==
    /\ r.reply = NoReply
    /\ Entries(r.log, "handler") = {}
    /\ NoDriverCall(r.log)

\* C27, as the specification states it: when self.libvirt_connection is
\* None (disconnect() closed it), a permitted request of the control
\* namespace or of the definition namespace is aborted silently.
C27_NoConnectionAborts ==
    ~libvirt_connection =>
        /\ \A q \in Permitted(ControlRequests) :
             Aborted(process_iq_archipel_control(State, q))
        /\ \A q \in Permitted(DefinitionRequests) :
             Aborted(process_iq_archipel_definition(State, q))

\* The permitted read-only requests of the two namespaces.
ReadOnlyControlRequests ==
    {q \in Permitted(ControlRequests) : q.action \in {"info", "xmldesc", "networkinfo"}}
ReadOnlyDefinitionRequests ==
    {q \in Permitted(DefinitionRequests) : q.action = "capabilities"}

\* The agent as it is, with the lock free.
Unlocked == [State EXCEPT !.locked = FALSE]

\* What a read-only request must leave alone and must not answer: r is
\* what the router returns on State, free what it returns on Unlocked.
ServedAsWhenFree(r, free) ==
    /\ r.reply = free.reply
    /\ r.log = free.log
    /\ r.reply.code # ARCHIPEL_ERROR_CODE_VM_LOCKED
    /\ Entries(r.log, "lock") = {}
    /\ Entries(r.log, "unlock") = {}
    /\ Entries(r.log, "presence") = {}
    /\ Entries(r.log, "trigger") = {}
    /\ Next_State(r) = State

\* C28: while the lock is held, info, xmldesc, networkinfo and capabilities
\* are answered exactly as they are when the lock is free (same reply, same
\* driver calls), never with VM_LOCKED, and they leave the lock, its timer,
\* the presence, the triggers, is_migrating and every other field as they
\* were.
C28_ReadOnlyIgnoresLock ==
    (authenticated /\ locked) =>
        /\ \A q \in ReadOnlyControlRequests :
             ServedAsWhenFree(process_iq_archipel_control(State, q),
                              process_iq_archipel_control(Unlocked, q))
        /\ \A q \in ReadOnlyDefinitionRequests :
             ServedAsWhenFree(process_iq_archipel_definition(State, q),
                              process_iq_archipel_definition(Unlocked, q))

\* C28's case: the lock is held for a started event not yet processed, and
\* a networkinfo request is answered with the interface statistics.
C28_Witness ==
    /\ authenticated /\ locked /\ events # <<>>
    /\ LET r == process_iq_archipel_control(
                    State, Request("networkinfo", TRUE, <<>>, 0, 0))
       IN /\ r.reply.type = "result"
          /\ r.reply.payload = <<"network">>
          /\ r.locked

\* C29: when the domain handle is None, a permitted info request and a
\* permitted networkinfo request are each answered with an "ignore" reply
\* that has no payload and no error code, a permitted xmldesc request is
\* answered with the error of Exception("not-defined") under the code
\* VM_XMLDESC (-1011) and no libvirt namespace, and none of the three makes
\* a driver call or changes a field.
C29_NullHandleReplies ==
    (authenticated /\ ~domain) =>
        \A q \in ReadOnlyControlRequests :
            LET r == process_iq_archipel_control(State, q)
            IN /\ NoDriverCall(r.log)
               /\ Next_State(r) = State
               /\ IF q.action = "xmldesc"
                  THEN /\ r.reply = [type |-> "error", ns |-> "", payload |-> <<>>,
                                     code |-> ARCHIPEL_ERROR_CODE_VM_XMLDESC]
                       /\ r.reply.code = -1011
                       /\ Logs(r.log, "raise") = {<<"Exception", "not-defined">>}
                  ELSE /\ r.reply = [type |-> "ignore", ns |-> "", payload |-> <<>>,
                                     code |-> 0]
                       /\ Entries(r.log, "raise") = {}

\* C29's case: the session is open on an agent whose handle is None and
\* whose domain the driver does not know (never defined, or undefined and
\* the event processed); info is answered "ignore" and xmldesc with the
\* VM_XMLDESC error.
C29_Witness ==
    /\ authenticated /\ ~domain /\ ~drv_defined /\ events = <<>>
    /\ process_iq_archipel_control(
         State, Request("info", TRUE, <<>>, 0, 0)).reply.type = "ignore"
    /\ process_iq_archipel_control(
         State, Request("xmldesc", TRUE, <<>>, 0, 0)).reply.code
         = ARCHIPEL_ERROR_CODE_VM_XMLDESC

\* What one poll of a pending timer must do when info() reads memory: r is
\* what memoryTimer returns.
PollOutcome(r, t, memory) ==
    IF (t.requestedMemory \div memory) \in {0, 1} \/ t.retry = 0
    THEN /\ Cardinality(Entries(r.log, "push")) = 1
         /\ Logs(r.log, "push") = {<<"virtualmachine:control", "memory">>}
         /\ Entries(r.log, "timer") = {}
    ELSE /\ Entries(r.log, "push") = {}
         /\ TimersStarted(r.log, t.call) = {[t EXCEPT !.retry = @ - 1]}

\* C30, as the specification states it: every successful setMemory call
\* polls a value of at least 10, reads the domain info at most 4 times, has
\* at most one timer pending, and once no timer is pending it has emitted
\* exactly one "memory" notification on "virtualmachine:control" (none
\* before); each poll notifies when requested / current is 0 or 1 or when
\* retry is 0 and schedules nothing more, and otherwise schedules one more
\* poll with one retry less.
C30_MemoryPollingNotifiesOnce ==
    /\ \A i \in DOMAIN memory_polls :
         LET pending == {t \in memory_timers : t.call = i}
         IN /\ memory_polls[i].reads <= 4
            /\ Cardinality(pending) <= 1
            /\ memory_polls[i].pushes = IF pending = {} THEN 1 ELSE 0
    /\ \A t \in memory_timers :
         /\ t.requestedMemory >= 10
         /\ t.retry \in 0 .. 3
         /\ \A memory \in MemoryValues :
              PollOutcome(memoryTimer(State, t.requestedMemory, t.retry, memory),
                          t, memory)

\* The accepted shutdown requests the driver serves: no error of its own.
ShutdownRequests ==
    {q \in Permitted(ControlRequests) : q.action = "shutdown" /\ q.err = 0}

\* The presences of a log whose status text is "Shutdowning...": no
\* lifecycle event publishes that text, only the handler does.
ShutdowningPresences(log) ==
    {p \in Logs(log, "presence") : p[2] = ARCHIPEL_XMPP_SHOW_SHUTDOWNING}

\* C31, as the specification states it: an accepted shutdown the driver
\* serves takes the lock and calls the driver's shutdown; when the domain
\* was running or blocked the handler publishes the status "Shutdowning..."
\* with the show as it was, and when it was paused the handler publishes
\* no presence itself.
C31_ShutdownPresence ==
    (authenticated /\ ~locked /\ ~is_migrating /\ domain /\ drv_defined
       /\ drv_state \in ActiveStates) =>
        \A q \in ShutdownRequests :
            LET r == process_iq_archipel_control(State, q)
            IN /\ r.reply.type = "result"
               /\ Entries(r.log, "lock") # {}
               /\ <<"shutdown", "">> \in Logs(r.log, "driver")
               /\ ShutdowningPresences(r.log) =
                    IF drv_state \in {VIR_DOMAIN_RUNNING, VIR_DOMAIN_BLOCKED}
                    THEN {<<xmppstatusshow, ARCHIPEL_XMPP_SHOW_SHUTDOWNING>>}
                    ELSE {}
               /\ (drv_state = VIR_DOMAIN_PAUSED
                     /\ EmitsLifecycle(hyp, VIR_DOMAIN_EVENT_STOPPED)) =>
                      Entries(r.log, "presence") = {}

\* The lifecycle event that confirms each action.
EventOf(action) ==
    CASE action = "create" -> <<VIR_DOMAIN_EVENT_STARTED, VIR_DOMAIN_EVENT_STARTED_BOOTED>>
      [] action = "shutdown" -> <<VIR_DOMAIN_EVENT_STOPPED, VIR_DOMAIN_EVENT_STOPPED_SHUTDOWN>>
      [] action = "destroy" -> <<VIR_DOMAIN_EVENT_STOPPED, VIR_DOMAIN_EVENT_STOPPED_DESTROYED>>
      [] action = "suspend" -> <<VIR_DOMAIN_EVENT_SUSPENDED, VIR_DOMAIN_EVENT_SUSPENDED_PAUSED>>
      [] action = "resume" -> <<VIR_DOMAIN_EVENT_RESUMED, VIR_DOMAIN_EVENT_RESUMED_UNPAUSED>>
      [] action = "define" -> <<VIR_DOMAIN_EVENT_DEFINED, 0>>
      [] action = "undefine" -> <<VIR_DOMAIN_EVENT_UNDEFINED, 0>>

\* The permitted requests for the seven actions, with the router that
\* serves each.
EventActionRequests ==
    {q \in Permitted(ControlRequests) :
        q.action \in {"create", "shutdown", "destroy", "suspend", "resume"}}
    \cup {q \in Permitted(DefinitionRequests) : q.action \in {"define", "undefine"}}
Serve(s, q) ==
    IF q.action \in DefinitionActions
    THEN process_iq_archipel_definition(s, q)
    ELSE process_iq_archipel_control(s, q)

\* The guest stops after an accepted shutdown: the one action whose event
\* the driver emits later than the call.
AfterEmission(r, action) ==
    IF action = "shutdown"
    THEN driver_change(r, <<VIR_DOMAIN_EVENT_STOPPED, VIR_DOMAIN_EVENT_STOPPED_SHUTDOWN,
                            ActiveStates, VIR_DOMAIN_SHUTOFF>>)
    ELSE r

\* The agent state one processing of the event ev leaves, and what it did:
\* the branch's presence, trigger, notification and hook (once), the lock
\* released, the handle dropped by an undefined event.
EndsAs(r, ev) ==
    LET b == event_branch(ev[1], ev[2])
    IN /\ r.xmppstatusshow = b[1]
       /\ r.xmppstatus = b[2]
       /\ r.libvirt_run = b[5]
       /\ <<b[3], b[4]>> \in Logs(r.log, "push")
       /\ Cardinality({i \in Entries(r.log, "hook") : r.log[i][2] = b[6]}) = 1
       /\ ~r.locked
       /\ (ev[1] = VIR_DOMAIN_EVENT_UNDEFINED) => ~r.domain

\* C32, as the specification states it: a successful create, shutdown,
\* destroy, suspend, resume, define or undefine ends in the state one
\* processing of its event leaves, on either kind of driver: where the
\* driver does not emit the event the handler has processed it once when it
\* returns; where the driver emits it the handler has processed none, the
\* driver has queued exactly that one event, and its delivery leaves the
\* same presence, trigger, notification, hook, handle and lock.
C32_SynthesizedEventEquivalence ==
    (authenticated /\ ~is_migrating /\ ~locked /\ events = <<>>) =>
        \A q \in EventActionRequests :
            LET r == Serve(State, q)
                ev == EventOf(q.action)
                hook == event_branch(ev[1], ev[2])[6]
                e == AfterEmission(r, q.action)
            IN (r.reply.type = "result" /\ (q.action = "undefine" => domain)) =>
                 IF EmitsLifecycle(hyp, ev[1])
                 THEN /\ <<hook, "">> \notin Logs(r.log, "hook")
                      /\ e.events = <<ev>>
                      /\ EndsAs(deliver([e EXCEPT !.log = <<>>]), ev)
                 ELSE /\ r.events = <<>>
                      /\ EndsAs(r, ev)

\* C33, as the specification states it: whenever the lock is held the
\* timer of the lock() call that took it is pending, and unlock() leaves
\* the lock free with no safety timer pending, neither the one
\* self.lock_timer refers to nor one of an earlier lock() call.
C33_LockedHasTimerUnlockLeavesNone ==
    /\ locked => lock_timer = "armed"
    /\ LET u == unlock(State)
       IN /\ ~u.locked
          /\ u.lock_timer = "none"
          /\ u.stale_timers = 0

\* The names a table holds, and whether no name has two rows.
TriggerRowNames(db) == {db.triggers[i] : i \in DOMAIN db.triggers}
WatcherRowNames(db) == {db.watchers[i].name : i \in DOMAIN db.watchers}
NoSecondRow(db) ==
    /\ \A i, j \in DOMAIN db.triggers : db.triggers[i] = db.triggers[j] => i = j
    /\ \A i, j \in DOMAIN db.watchers :
         db.watchers[i].name = db.watchers[j].name => i = j

\* C34, as the specification states it: once the session has started,
\* after any sequence of add_trigger, remove_trigger, add_watcher and
\* remove_watcher calls (and restarts) the triggers table holds exactly the
\* names of self.triggers and the watchers table exactly the names of
\* self.watchers, one row each, and a restart on that database recovers
\* the same two sets.
C34_TablesMirrorMemory ==
    authenticated =>
        /\ TriggerRowNames(trigger_database) = triggers
        /\ WatcherRowNames(trigger_database) = {w.name : w \in watchers}
        /\ NoSecondRow(trigger_database)
        /\ \A info_err \in ErrorChoices :
             LET r == xmpp_authenticated(restart(State), info_err)
             IN /\ r.triggers = triggers
                /\ {w.name : w \in r.watchers} = {w.name : w \in watchers}

\* C35, as the specification states it: the timer self.lock_timer refers
\* to is pending only while the acquisition that armed it holds the lock,
\* and the expiry of a timer armed by an earlier lock() call leaves a lock
\* taken by a later lock() call held, with its own timer still pending.
C35_TimerReleasesOwnAcquisition ==
    /\ lock_timer = "armed" => locked
    /\ (locked /\ stale_timers > 0) =>
         LET r == timer_fires(State, FALSE)
         IN /\ r.locked
            /\ r.lock_timer = "armed"

\* Whether a lifecycle event of kind ev confirms the action: reboot is
\* confirmed by none.
Confirms(ev, action) == action # "reboot" /\ ev = EventOf(action)[1]

\* C36, as the specification states it: once a create, shutdown, destroy,
\* reboot, suspend or resume request is accepted and has returned with the
\* lock held, a lifecycle event of a kind that does not confirm that action
\* (a stop while a reboot or a create is in flight, an event no branch
\* matches) leaves the lock held.
C36_OnlyConfirmingEventReleases ==
    (authenticated /\ ~locked /\ ~is_migrating) =>
        \A q \in GatedRequests :
            LET r == process_iq_archipel_control(State, q)
            IN (r.reply.type = "result" /\ r.locked) =>
                 \A ev \in LifecycleEvents, detail \in LifecycleDetails :
                     ~Confirms(ev, q.action) =>
                         on_domain_event(Next_State(r), ev, detail).locked

\* The chat messages that map to create, shutdown, destroy, suspend and
\* resume, from a sender that holds the permission.
ChatControlMessages ==
    {m \in ChatMessages :
        /\ ActionOf(m.command) \in {"create", "shutdown", "destroy", "suspend", "resume"}
        /\ ActionOf(m.command) \in m.held}

\* C37, as the specification states it: a chat command that maps to create,
\* shutdown, destroy, suspend or resume makes no driver call while the lock
\* is held, and when it answers with an error text the lock is released.
C37_ChatObeysLockDiscipline ==
    authenticated =>
        \A m \in ChatControlMessages :
            LET r == process_message(State, m)
            IN /\ locked => NoDriverCall(r.log)
               /\ r.reply.type = "error_message" => ~r.locked

\* C38, as the specification states it: in every reachable state the
\* presence status text is "Migrating..." only while is_migrating is true.
C38_MigratingStatusOnlyWhileMigrating ==
    xmppstatus = "Migrating..." => is_migrating

\* C39, as the specification states it: at most one lifecycle callback is
\* registered at the driver and libvirt_event_callback_id identifies it;
\* the domain handle is not None-d while a registration is live, so that no
\* define request (whose connect_domain registers a callback when the
\* handle is None) ends with a second registration.
C39_SingleLiveRegistration ==
    /\ registrations <= 1
    /\ callback_id <=> registrations = 1
    /\ registrations > 0 => domain
    /\ authenticated =>
         \A q \in DefinitionRequests :
             Next_State(process_iq_archipel_definition(State, q)).registrations <= 1

\* C40, as the specification states it: on a driver that emits lifecycle
\* events, once the shutdown handler has returned and the stopped event of
\* the guest's shutdown has been handled, the published presence is the
\* shut-off presence (show "xa") and its status is not "Shutdowning...".
C40_StoppedPresenceSurvives ==
    (/\ shutdown_pc = "returned"
     /\ registrations > 0
     /\ drv_state = VIR_DOMAIN_SHUTOFF
     /\ events = <<>>) =>
        /\ xmppstatusshow = "xa"
        /\ xmppstatus = ARCHIPEL_XMPP_SHOW_SHUTDOWNED
====
